---- MODULE Spec2Model ----
(***************************************************************************)
(* A model of rugo's Parquet footer decoder: the Thrift Compact Protocol   *)
(* reader (thrift.hpp), the FileMetaData parser and the footer locator     *)
(* (metadata.cpp), and the Python surface read_metadata / decode_value     *)
(* (metadata_reader.pyx).                                                  *)
(*                                                                         *)
(* Bytes are naturals 0..255, a std::string is a sequence of bytes, and a  *)
(* TInput is a buffer `buf` with a 0-based cursor `p` (end = Len(buf)).    *)
(* Every reader returns a record: Ok(p, v) carries the cursor after the    *)
(* read and the value, Throw(e) is a raised std::runtime_error(e).         *)
(***************************************************************************)
EXTENDS Integers, Sequences, FiniteSets, TLC

\* ------------------------------------------------------------------------
\* Results of a reader call
\* ------------------------------------------------------------------------

Ok(p, v) == [ok |-> TRUE, p |-> p, v |-> v, err |-> ""]

Throw(e) == [ok |-> FALSE, p |-> 0, v |-> 0, err |-> e]

\* An exception thrown by a callee unwinds through the caller: the rest of the
\* caller, K, runs only on a result that is not a throw.
Bind(r, K(_)) == IF ~r.ok THEN r ELSE K(r)

\* ------------------------------------------------------------------------
\* Integer conversions of the C++ code
\* ------------------------------------------------------------------------

\* (int16_t)n
ToInt16(n) ==
  LET m == n % 65536 IN IF m >= 32768 THEN m - 65536 ELSE m

\* (uint32_t)n, for the naturals TLC represents
ToUint32(n) == (n % 65536) + 65536 * ((n \div 65536) % 65536)

\* (n >> 1) ^ -(int64_t)(n & 1)
ZigZagDecode(n) == IF n % 2 = 0 THEN n \div 2 ELSE -((n + 1) \div 2)

\* ------------------------------------------------------------------------
\* thrift.hpp: the Compact Protocol reader
\* ------------------------------------------------------------------------

\* TInput::readByte: throws at or beyond end, else returns *p++
readByte(buf, p) ==
  IF p >= Len(buf) THEN Throw("EOF") ELSE Ok(p + 1, buf[p + 1])

\* a | b on naturals
RECURSIVE Or64(_, _)
Or64(a, b) ==
  IF a = 0 THEN b
  ELSE IF b = 0 THEN a
  ELSE (IF a % 2 = 1 \/ b % 2 = 1 THEN 1 ELSE 0) + 2 * Or64(a \div 2, b \div 2)

\* What a build makes of (uint64_t)chunk << shift when shift >= 64, which the
\* language leaves undefined: the count taken modulo 64, or every bit shifted
\* out
WideShifts == {"wraps", "zero"}

\* (uint64_t)(byte & 0x7F) << shift.  A zero chunk stays zero under every
\* outcome; no case is given for a wide shift outside WideShifts.
ShiftLeft64(chunk, shift, wide) ==
  IF chunk = 0 THEN 0
  ELSE IF shift < 64 THEN chunk * (2 ^ shift)
  ELSE CASE wide = "wraps" -> chunk * (2 ^ (shift % 64))
         [] wide = "zero" -> 0

\* while (true) { byte = readByte(); result |= chunk << shift;
\*                if (!(byte & 0x80)) break; shift += 7; }
\* The chunks of one varint occupy disjoint bits, so |= adds; a wrapped
\* chunk may overlap, and then |= is the bitwise or of the 7-bit fields.
RECURSIVE ReadVarintLoop(_, _, _, _, _)
ReadVarintLoop(buf, p, result, shift, wide) ==
  Bind(readByte(buf, p), LAMBDA b:
    LET r == IF shift < 64 THEN result + ShiftLeft64(b.v % 128, shift, wide)
             ELSE Or64(result, ShiftLeft64(b.v % 128, shift, wide)) IN
       IF b.v < 128 THEN Ok(b.p, r)
       ELSE ReadVarintLoop(buf, b.p, r, shift + 7, wide))

\* ReadVarint under a build whose wide shifts behave as `wide`
ReadVarintWide(buf, p, wide) == ReadVarintLoop(buf, p, 0, 0, wide)

\* ReadVarint where no encoding is longer than nine bytes: the shift stays
\* below 64 and the build's choice is never consulted
ReadVarint(buf, p) == ReadVarintWide(buf, p, "unused")

ReadI64(buf, p) ==
  Bind(ReadVarint(buf, p), LAMBDA r: Ok(r.p, ZigZagDecode(r.v)))

\* the (int32_t) cast is the identity on the values a varint of at most four
\* bytes holds
ReadI32(buf, p) ==
  Bind(ReadVarint(buf, p), LAMBDA r: Ok(r.p, ZigZagDecode(r.v)))

ReadString(buf, p) ==
  Bind(ReadVarint(buf, p), LAMBDA l:
  IF l.p + l.v > Len(buf) THEN Throw("Invalid string length")
  ELSE Ok(l.p + l.v, SubSeq(buf, l.p + 1, l.p + l.v)))

\* The STOP header is {-1, 0}; otherwise last_id becomes the returned id, so a
\* caller's loop carries v.id on as its last_id.
ReadFieldHeader(buf, p, last_id) ==
  Bind(readByte(buf, p), LAMBDA h:
  IF h.v = 0 THEN Ok(h.p, [id |-> -1, type |-> 0])
  ELSE LET type == h.v % 16
           modifier == h.v \div 16
       IN IF modifier = 0
          THEN Bind(ReadVarint(buf, h.p), LAMBDA r:
                 Ok(r.p, [id |-> ToInt16(r.v), type |-> type]))
          ELSE Ok(h.p, [id |-> ToInt16(last_id + modifier), type |-> type]))

ReadListHeader(buf, p) ==
  Bind(readByte(buf, p), LAMBDA f:
    LET size == f.v \div 16
           elem_type == f.v % 16
       IN IF size = 15
          THEN Bind(ReadVarint(buf, f.p), LAMBDA r:
                 Ok(r.p, [elem_type |-> elem_type, size |-> ToUint32(r.v)]))
          ELSE Ok(f.p, [elem_type |-> elem_type, size |-> size]))

RECURSIVE SkipField(_, _, _)
RECURSIVE SkipElems(_, _, _, _)
RECURSIVE SkipPairs(_, _, _, _, _)
RECURSIVE SkipStruct(_, _, _)

\* for (i < n) SkipField(in, elem_type)
SkipElems(buf, p, n, elem_type) ==
  IF n = 0 THEN Ok(p, 0)
  ELSE Bind(SkipField(buf, p, elem_type), LAMBDA r:
         SkipElems(buf, r.p, n - 1, elem_type))

\* for (i < n) { SkipField(in, key_type); SkipField(in, val_type); }
SkipPairs(buf, p, n, key_type, val_type) ==
  IF n = 0 THEN Ok(p, 0)
  ELSE Bind(SkipField(buf, p, key_type), LAMBDA k:
         Bind(SkipField(buf, k.p, val_type), LAMBDA v:
           SkipPairs(buf, v.p, n - 1, key_type, val_type)))

\* while (true) { fh = ReadFieldHeader; if (fh.type == 0) break; SkipField }
SkipStruct(buf, p, last) ==
  Bind(ReadFieldHeader(buf, p, last), LAMBDA fh:
  IF fh.v.type = 0 THEN Ok(fh.p, 0)
  ELSE Bind(SkipField(buf, fh.p, fh.v.type), LAMBDA r:
         SkipStruct(buf, r.p, fh.v.id)))

\* case 11 of SkipField: the first byte's high nibble is taken as the size
SkipMap(buf, p) ==
  Bind(readByte(buf, p), LAMBDA f:
    LET nib == f.v \div 16 IN
       IF nib = 0 THEN Ok(f.p, 0)
       ELSE Bind(IF nib = 15 THEN ReadVarint(buf, f.p) ELSE Ok(f.p, nib), LAMBDA sz:
              Bind(readByte(buf, sz.p), LAMBDA t:
                SkipPairs(buf, t.p, ToUint32(sz.v), t.v \div 16, t.v % 16))))

\* case 7 of SkipField: in.p += 8, with no check against end
SkipDouble(buf, p) == Ok(p + 8, 0)

\* cases 1, 2 of SkipField: a BOOL consumes nothing
SkipBool(buf, p) == Ok(p, 0)

SkipField(buf, p, type) ==
  CASE type = 0 -> Ok(p, 0)
    [] type \in {1, 2} -> SkipBool(buf, p)
    [] type = 3 -> readByte(buf, p)
    [] type \in {4, 5} -> ReadI32(buf, p)
    [] type = 6 -> ReadI64(buf, p)
    [] type = 7 -> SkipDouble(buf, p)
    [] type = 8 -> ReadString(buf, p)
    [] type \in {9, 10} ->
         Bind(ReadListHeader(buf, p), LAMBDA lh:
           SkipElems(buf, lh.p, lh.v.size, lh.v.elem_type))
    [] type = 11 -> SkipMap(buf, p)
    [] type = 12 -> SkipStruct(buf, p, 0)
    [] OTHER -> readByte(buf, p)

\* ------------------------------------------------------------------------
\* metadata.cpp: string tables
\* ------------------------------------------------------------------------

ParquetTypeToString(t) ==
  CASE t = 0 -> "BOOLEAN"
    [] t = 1 -> "INT32"
    [] t = 2 -> "INT64"
    [] t = 3 -> "INT96"
    [] t = 4 -> "FLOAT"
    [] t = 5 -> "DOUBLE"
    [] t = 6 -> "BYTE_ARRAY"
    [] t = 7 -> "FIXED_LEN_BYTE_ARRAY"
    [] OTHER -> "UNKNOWN"

LogicalTypeToString(t) ==
  CASE t = 1 -> "STRING"
    [] t = 2 -> "MAP"
    [] t = 3 -> "LIST"
    [] t = 4 -> "ENUM"
    [] t = 5 -> "DECIMAL"
    [] t = 6 -> "DATE"
    [] t = 7 -> "TIME_MILLIS"
    [] t = 8 -> "TIME_MICROS"
    [] t = 9 -> "TIMESTAMP_MILLIS"
    [] t = 10 -> "TIMESTAMP_MICROS"
    [] t = 11 -> "UINT_8"
    [] t = 12 -> "UINT_16"
    [] t = 13 -> "UINT_32"
    [] t = 14 -> "UINT_64"
    [] t = 15 -> "INT_8"
    [] t = 16 -> "INT_16"
    [] t = 17 -> "INT_32"
    [] t = 18 -> "INT_64"
    [] t = 19 -> "JSON"
    [] t = 20 -> "BSON"
    [] t = 21 -> "INTERVAL"
    [] OTHER -> ""

\* ------------------------------------------------------------------------
\* metadata.hpp: the result types, as default-constructed
\* ------------------------------------------------------------------------

NewColumnStats ==
  [name |-> <<>>, physical_type |-> "", logical_type |-> "",
   min |-> <<>>, max |-> <<>>,
   null_count |-> -1, distinct_count |-> -1,
   bloom_offset |-> -1, bloom_length |-> -1]

NewRowGroupStats == [num_rows |-> 0, total_byte_size |-> 0, columns |-> <<>>]

NewFileStats == [num_rows |-> 0, row_groups |-> <<>>]

NewSchemaElement == [name |-> <<>>, logical_type |-> "", num_children |-> 0]

\* ------------------------------------------------------------------------
\* metadata.cpp: schema parsing
\* ------------------------------------------------------------------------

\* The parameter struct of a TIME, TIMESTAMP or INTEGER variant. `kind` is the
\* variant's field id in the LogicalType union (7, 8 or 9).
RECURSIVE ParseLogicalParams(_, _, _, _)
ParseLogicalParams(buf, p, last, kind) ==
  Bind(ReadFieldHeader(buf, p, last), LAMBDA fh:
  IF fh.v.type = 0
       THEN Ok(fh.p, CASE kind = 7 -> "TIME" [] kind = 8 -> "TIMESTAMP" [] OTHER -> "INT")
  ELSE IF fh.v.id = 1
       THEN Bind(readByte(buf, fh.p), LAMBDA b:
              ParseLogicalParams(buf, b.p, fh.v.id, kind))
  ELSE IF fh.v.id = 2
       THEN IF kind = 9
            THEN Bind(readByte(buf, fh.p), LAMBDA b:
                   Ok(b.p, IF b.v # 0 THEN "INT" ELSE "UINT"))
            ELSE Bind(ReadI32(buf, fh.p), LAMBDA u:
                   Ok(u.p, CASE kind = 7 /\ u.v = 0 -> "TIME_MILLIS"
                                [] kind = 7 /\ u.v = 1 -> "TIME_MICROS"
                                [] kind = 7 /\ u.v \notin {0, 1} -> "TIME"
                                [] kind = 8 /\ u.v = 0 -> "TIMESTAMP_MILLIS"
                                [] kind = 8 /\ u.v = 1 -> "TIMESTAMP_MICROS"
                                [] OTHER -> "TIMESTAMP"))
  ELSE Bind(SkipField(buf, fh.p, fh.v.type), LAMBDA r:
         ParseLogicalParams(buf, r.p, fh.v.id, kind)))

\* The variants that return at once, on the field header alone
LogicalVariantName(id) ==
  CASE id = 1 -> "STRING"
    [] id = 2 -> "MAP"
    [] id = 3 -> "LIST"
    [] id = 4 -> "ENUM"
    [] id = 6 -> "DATE"
    [] id = 10 -> "JSON"
    [] id = 11 -> "BSON"
    [] id = 12 -> "UUID"
    [] OTHER -> "FLOAT16"

RECURSIVE ParseLogicalTypeLoop(_, _, _)
ParseLogicalTypeLoop(buf, p, last) ==
  Bind(ReadFieldHeader(buf, p, last), LAMBDA fh:
  IF fh.v.type = 0 THEN Ok(fh.p, "")
  ELSE IF fh.v.id \in {1, 2, 3, 4, 6, 10, 11, 12, 13}
       THEN Ok(fh.p, LogicalVariantName(fh.v.id))
  ELSE IF fh.v.id = 5
       THEN Bind(SkipStruct(buf, fh.p, 0), LAMBDA r:
              Ok(r.p, "DECIMAL"))
  ELSE IF fh.v.id \in {7, 8, 9}
       THEN ParseLogicalParams(buf, fh.p, 0, fh.v.id)
  ELSE Bind(SkipField(buf, fh.p, fh.v.type), LAMBDA r:
         ParseLogicalTypeLoop(buf, r.p, fh.v.id)))

ParseLogicalType(buf, p) == ParseLogicalTypeLoop(buf, p, 0)

\* (A logicalType kept only where converted_type left the element untyped)
KeepConvertedType(elem, logical) ==
  IF logical # "" /\ elem.logical_type = ""
  THEN [elem EXCEPT !.logical_type = logical] ELSE elem

\* case 10: if (!logical.empty()) elem.logical_type = logical;
TakeLogicalType(elem, logical) ==
  IF logical # "" THEN [elem EXCEPT !.logical_type = logical] ELSE elem

RECURSIVE ParseSchemaElementLoop(_, _, _, _)
ParseSchemaElementLoop(buf, p, last, elem) ==
  Bind(ReadFieldHeader(buf, p, last), LAMBDA fh:
  IF fh.v.type = 0 THEN Ok(fh.p, elem)
  ELSE IF fh.v.id \in {1, 2, 3, 7, 8, 9}
       THEN Bind(ReadI32(buf, fh.p), LAMBDA r:
              ParseSchemaElementLoop(buf, r.p, fh.v.id, elem))
  ELSE IF fh.v.id = 4
       THEN Bind(ReadString(buf, fh.p), LAMBDA r:
              ParseSchemaElementLoop(buf, r.p, fh.v.id, [elem EXCEPT !.name = r.v]))
  ELSE IF fh.v.id = 5
       THEN Bind(ReadI32(buf, fh.p), LAMBDA r:
              ParseSchemaElementLoop(buf, r.p, fh.v.id,
                                        [elem EXCEPT !.num_children = r.v]))
  ELSE IF fh.v.id = 6
       THEN Bind(ReadI32(buf, fh.p), LAMBDA r:
              ParseSchemaElementLoop(buf, r.p, fh.v.id,
                   [elem EXCEPT !.logical_type = LogicalTypeToString(r.v)]))
  ELSE IF fh.v.id = 10
       THEN Bind(ParseLogicalType(buf, fh.p), LAMBDA r:
              ParseSchemaElementLoop(buf, r.p, fh.v.id,
                                        TakeLogicalType(elem, r.v)))
  ELSE Bind(SkipField(buf, fh.p, fh.v.type), LAMBDA r:
         ParseSchemaElementLoop(buf, r.p, fh.v.id, elem)))

ParseSchemaElement(buf, p) == ParseSchemaElementLoop(buf, p, 0, NewSchemaElement)

\* ------------------------------------------------------------------------
\* metadata.cpp: statistics, column metadata, column chunks, row groups
\* ------------------------------------------------------------------------

\* cs.min = !v2_min.empty() ? v2_min : legacy_min  (and the same for max)
PickStat(v2, legacy) == IF v2 # <<>> THEN v2 ELSE legacy

\* `loc` holds the four locals legacy_min, legacy_max, v2_min, v2_max.
RECURSIVE ParseStatisticsLoop(_, _, _, _, _)
ParseStatisticsLoop(buf, p, last, cs, loc) ==
  Bind(ReadFieldHeader(buf, p, last), LAMBDA fh:
  IF fh.v.type = 0
       THEN Ok(fh.p, [cs EXCEPT !.min = PickStat(loc.v2_min, loc.legacy_min),
                                !.max = PickStat(loc.v2_max, loc.legacy_max)])
  ELSE IF fh.v.id \in {1, 2, 5, 6}
       THEN Bind(ReadString(buf, fh.p), LAMBDA r:
              ParseStatisticsLoop(buf, r.p, fh.v.id, cs,
                   CASE fh.v.id = 1 -> [loc EXCEPT !.legacy_max = r.v]
                     [] fh.v.id = 2 -> [loc EXCEPT !.legacy_min = r.v]
                     [] fh.v.id = 5 -> [loc EXCEPT !.v2_max = r.v]
                     [] OTHER -> [loc EXCEPT !.v2_min = r.v]))
  ELSE IF fh.v.id \in {3, 4}
       THEN Bind(ReadI64(buf, fh.p), LAMBDA r:
              ParseStatisticsLoop(buf, r.p, fh.v.id,
                   IF fh.v.id = 3 THEN [cs EXCEPT !.null_count = r.v]
                   ELSE [cs EXCEPT !.distinct_count = r.v], loc))
  ELSE Bind(SkipField(buf, fh.p, fh.v.type), LAMBDA r:
         ParseStatisticsLoop(buf, r.p, fh.v.id, cs, loc)))

ParseStatistics(buf, p, cs) ==
  ParseStatisticsLoop(buf, p, 0, cs,
    [legacy_min |-> <<>>, legacy_max |-> <<>>, v2_min |-> <<>>, v2_max |-> <<>>])

\* for (i < n) ReadVarint(in)
RECURSIVE ReadVarints(_, _, _)
ReadVarints(buf, p, n) ==
  IF n = 0 THEN Ok(p, 0)
  ELSE Bind(ReadVarint(buf, p), LAMBDA r:
         ReadVarints(buf, r.p, n - 1))

\* if (!name.empty()) name.push_back('.'); name += part;
AppendPart(name, part) ==
  IF name # <<>> THEN name \o <<46>> \o part ELSE name \o part

RECURSIVE ReadPath(_, _, _, _)
ReadPath(buf, p, n, name) ==
  IF n = 0 THEN Ok(p, name)
  ELSE Bind(ReadString(buf, p), LAMBDA r:
         ReadPath(buf, r.p, n - 1, AppendPart(name, r.v)))

\* key_value_metadata: for (i < n) skip one struct, whatever the element type
RECURSIVE SkipStructs(_, _, _)
SkipStructs(buf, p, n) ==
  IF n = 0 THEN Ok(p, 0)
  ELSE Bind(SkipStruct(buf, p, 0), LAMBDA r:
         SkipStructs(buf, r.p, n - 1))

RECURSIVE ParseColumnMetaLoop(_, _, _, _)
ParseColumnMetaLoop(buf, p, last, cs) ==
  Bind(ReadFieldHeader(buf, p, last), LAMBDA fh:
  IF fh.v.type = 0 THEN Ok(fh.p, cs)
  ELSE IF fh.v.id = 1
       THEN Bind(ReadI32(buf, fh.p), LAMBDA r:
              ParseColumnMetaLoop(buf, r.p, fh.v.id,
                   [cs EXCEPT !.physical_type = ParquetTypeToString(r.v)]))
  ELSE IF fh.v.id = 2
       THEN Bind(ReadListHeader(buf, fh.p), LAMBDA lh:
              Bind(ReadVarints(buf, lh.p, lh.v.size), LAMBDA r:
                ParseColumnMetaLoop(buf, r.p, fh.v.id, cs)))
  ELSE IF fh.v.id = 3
       THEN Bind(ReadListHeader(buf, fh.p), LAMBDA lh:
              Bind(ReadPath(buf, lh.p, lh.v.size, <<>>), LAMBDA r:
                ParseColumnMetaLoop(buf, r.p, fh.v.id, [cs EXCEPT !.name = r.v])))
  ELSE IF fh.v.id = 4
       THEN Bind(ReadI32(buf, fh.p), LAMBDA r:
              ParseColumnMetaLoop(buf, r.p, fh.v.id, cs))
  ELSE IF fh.v.id \in {5, 6, 7, 9, 10, 11}
       THEN Bind(ReadI64(buf, fh.p), LAMBDA r:
              ParseColumnMetaLoop(buf, r.p, fh.v.id, cs))
  ELSE IF fh.v.id = 8
       THEN Bind(ReadListHeader(buf, fh.p), LAMBDA lh:
              Bind(SkipStructs(buf, lh.p, lh.v.size), LAMBDA r:
                ParseColumnMetaLoop(buf, r.p, fh.v.id, cs)))
  ELSE IF fh.v.id = 12
       THEN Bind(ParseStatistics(buf, fh.p, cs), LAMBDA r:
              ParseColumnMetaLoop(buf, r.p, fh.v.id, r.v))
  ELSE IF fh.v.id \in {14, 15}
       THEN Bind(ReadI64(buf, fh.p), LAMBDA r:
              ParseColumnMetaLoop(buf, r.p, fh.v.id,
                   IF fh.v.id = 14 THEN [cs EXCEPT !.bloom_offset = r.v]
                   ELSE [cs EXCEPT !.bloom_length = r.v]))
  ELSE Bind(SkipField(buf, fh.p, fh.v.type), LAMBDA r:
         ParseColumnMetaLoop(buf, r.p, fh.v.id, cs)))

ParseColumnMeta(buf, p, cs) == ParseColumnMetaLoop(buf, p, 0, cs)

RECURSIVE ParseColumnChunkLoop(_, _, _, _)
ParseColumnChunkLoop(buf, p, last, cs) ==
  Bind(ReadFieldHeader(buf, p, last), LAMBDA fh:
  IF fh.v.type = 0 THEN Ok(fh.p, cs)
  ELSE IF fh.v.id = 1
       THEN Bind(ReadString(buf, fh.p), LAMBDA r:
              ParseColumnChunkLoop(buf, r.p, fh.v.id, cs))
  ELSE IF fh.v.id = 2
       THEN Bind(ReadI64(buf, fh.p), LAMBDA r:
              ParseColumnChunkLoop(buf, r.p, fh.v.id, cs))
  ELSE IF fh.v.id = 3
       THEN Bind(ParseColumnMeta(buf, fh.p, cs), LAMBDA r:
              ParseColumnChunkLoop(buf, r.p, fh.v.id, r.v))
  ELSE Bind(SkipField(buf, fh.p, fh.v.type), LAMBDA r:
         ParseColumnChunkLoop(buf, r.p, fh.v.id, cs)))

ParseColumnChunk(buf, p) == ParseColumnChunkLoop(buf, p, 0, NewColumnStats)

\* for (i < n) { ColumnStats cs; ParseColumnChunk(in, cs); columns.push_back(cs); }
RECURSIVE ParseColumns(_, _, _, _)
ParseColumns(buf, p, n, columns) ==
  IF n = 0 THEN Ok(p, columns)
  ELSE Bind(ParseColumnChunk(buf, p), LAMBDA r:
         ParseColumns(buf, r.p, n - 1, Append(columns, r.v)))

RECURSIVE ParseRowGroupLoop(_, _, _, _)
ParseRowGroupLoop(buf, p, last, rg) ==
  Bind(ReadFieldHeader(buf, p, last), LAMBDA fh:
  IF fh.v.type = 0 THEN Ok(fh.p, rg)
  ELSE IF fh.v.id = 1
       THEN Bind(ReadListHeader(buf, fh.p), LAMBDA lh:
              Bind(ParseColumns(buf, lh.p, lh.v.size, rg.columns), LAMBDA r:
                ParseRowGroupLoop(buf, r.p, fh.v.id, [rg EXCEPT !.columns = r.v])))
  ELSE IF fh.v.id \in {2, 3}
       THEN Bind(ReadI64(buf, fh.p), LAMBDA r:
              ParseRowGroupLoop(buf, r.p, fh.v.id,
                   IF fh.v.id = 2 THEN [rg EXCEPT !.total_byte_size = r.v]
                   ELSE [rg EXCEPT !.num_rows = r.v]))
  ELSE Bind(SkipField(buf, fh.p, fh.v.type), LAMBDA r:
         ParseRowGroupLoop(buf, r.p, fh.v.id, rg)))

ParseRowGroup(buf, p) == ParseRowGroupLoop(buf, p, 0, NewRowGroupStats)

\* ------------------------------------------------------------------------
\* metadata.cpp: ParseFileMeta
\* ------------------------------------------------------------------------

\* std::unordered_map<std::string, std::string> logical_type_map
EmptyMap == [k \in {} |-> ""]

MapPut(m, k, v) == [x \in (DOMAIN m) \cup {k} |-> IF x = k THEN v ELSE m[x]]

\* The schema loop's body after ParseSchemaElement, for element number i
NoteSchemaElement(map, i, elem) ==
  IF i > 0 /\ elem.name # <<>> /\ elem.logical_type # ""
  THEN MapPut(map, elem.name, elem.logical_type)
  ELSE map

RECURSIVE ParseSchemaList(_, _, _, _, _)
ParseSchemaList(buf, p, i, n, map) ==
  IF i >= n THEN Ok(p, map)
  ELSE Bind(ParseSchemaElement(buf, p), LAMBDA r:
         ParseSchemaList(buf, r.p, i + 1, n, NoteSchemaElement(map, i, r.v)))

\* (The map's entry and nothing else: no inference from the physical type)
ApplyMappedTypeOnly(col, map) ==
  IF col.name \in DOMAIN map
  THEN [col EXCEPT !.logical_type = map[col.name]]
  ELSE col

\* "Apply logical types to columns": the map's entry, else the inference from
\* the physical type
ApplyLogicalType(col, map) ==
  IF col.name \in DOMAIN map
  THEN [col EXCEPT !.logical_type = map[col.name]]
  ELSE CASE col.physical_type = "BYTE_ARRAY" -> [col EXCEPT !.logical_type = "STRING"]
         [] col.physical_type = "INT96" -> [col EXCEPT !.logical_type = "TIMESTAMP_NANOS"]
         [] col.physical_type \in {"INT32", "INT64"} -> [col EXCEPT !.logical_type = ""]
         [] OTHER -> col

ApplyLogicalTypes(rg, map) ==
  [rg EXCEPT !.columns = [j \in DOMAIN rg.columns |-> ApplyLogicalType(rg.columns[j], map)]]

RECURSIVE ParseRowGroups(_, _, _, _, _)
ParseRowGroups(buf, p, n, row_groups, map) ==
  IF n = 0 THEN Ok(p, row_groups)
  ELSE Bind(ParseRowGroup(buf, p), LAMBDA r:
         ParseRowGroups(buf, r.p, n - 1,
                           Append(row_groups, ApplyLogicalTypes(r.v, map)), map))

\* The field id whose value ParseFileMeta reads as the schema list
SchemaFieldId == 1

RECURSIVE ParseFileMetaLoop(_, _, _, _, _)
ParseFileMetaLoop(buf, p, last, fs, map) ==
  Bind(ReadFieldHeader(buf, p, last), LAMBDA fh:
  IF fh.v.type = 0 THEN Ok(fh.p, fs)
  ELSE IF fh.v.id = SchemaFieldId
       THEN Bind(ReadListHeader(buf, fh.p), LAMBDA lh:
              Bind(ParseSchemaList(buf, lh.p, 0, lh.v.size, map), LAMBDA r:
                ParseFileMetaLoop(buf, r.p, fh.v.id, fs, r.v)))
  ELSE IF fh.v.id = 3
       THEN Bind(ReadI64(buf, fh.p), LAMBDA r:
              ParseFileMetaLoop(buf, r.p, fh.v.id, [fs EXCEPT !.num_rows = r.v], map))
  ELSE IF fh.v.id = 4
       THEN Bind(ReadListHeader(buf, fh.p), LAMBDA lh:
              Bind(ParseRowGroups(buf, lh.p, lh.v.size, fs.row_groups, map), LAMBDA r:
                ParseFileMetaLoop(buf, r.p, fh.v.id,
                                        [fs EXCEPT !.row_groups = r.v], map)))
  ELSE Bind(SkipField(buf, fh.p, fh.v.type), LAMBDA r:
         ParseFileMetaLoop(buf, r.p, fh.v.id, fs, map)))

\* TInput in{footer.data(), footer.data() + footer.size()}; ParseFileMeta(in)
ParseFileMeta(buf) == ParseFileMetaLoop(buf, 0, 0, NewFileStats, EmptyMap)

\* ------------------------------------------------------------------------
\* Input construction: the Thrift Compact Protocol encoding of a value tree.
\* A struct is a sequence of fields [id, t, v] in ascending id order; t is
\* the Compact wire type (1/2 BOOL true/false, 3 I8, 4 I16, 5 I32, 6 I64,
\* 7 DOUBLE, 8 BINARY, 9 LIST, 10 SET, 11 MAP, 12 STRUCT).
\* ------------------------------------------------------------------------

RECURSIVE EncVarint(_)
EncVarint(n) ==
  IF n < 128 THEN <<n>> ELSE <<128 + (n % 128)>> \o EncVarint(n \div 128)

ZigZagEncode(v) == IF v >= 0 THEN 2 * v ELSE -2 * v - 1

EncInt(v) == EncVarint(ZigZagEncode(v))

EncBinary(s) == EncVarint(Len(s)) \o s

EncFieldHeader(last, id, t) ==
  IF id - last > 0 /\ id - last <= 15
  THEN <<(id - last) * 16 + t>>
  ELSE <<t>> \o EncInt(id)

EncListHeader(et, n) ==
  IF n < 15 THEN <<n * 16 + et>> ELSE <<240 + et>> \o EncVarint(n)

Fld(id, t, v) == [id |-> id, t |-> t, v |-> v]

RECURSIVE EncValue(_, _)
RECURSIVE EncFields(_, _)
RECURSIVE EncElems(_, _)
RECURSIVE EncPairs(_, _, _, _)

\* A list, set or map element: a BOOL is one byte (1 true, 2 false)
EncElem(et, v) == IF et \in {1, 2} THEN <<v>> ELSE EncValue(et, v)

EncElems(et, xs) ==
  IF Len(xs) = 0 THEN <<>> ELSE EncElem(et, Head(xs)) \o EncElems(et, Tail(xs))

EncPairs(kt, vt, ks, vs) ==
  IF Len(ks) = 0 THEN <<>>
  ELSE EncElem(kt, Head(ks)) \o EncElem(vt, Head(vs)) \o EncPairs(kt, vt, Tail(ks), Tail(vs))

EncFields(fields, last) ==
  IF Len(fields) = 0 THEN <<0>>
  ELSE LET f == Head(fields) IN
       EncFieldHeader(last, f.id, f.t) \o EncValue(f.t, f.v) \o EncFields(Tail(fields), f.id)

EncValue(t, v) ==
  CASE t \in {1, 2} -> <<>>
    [] t = 3 -> <<v>>
    [] t \in {4, 5, 6} -> EncInt(v)
    [] t = 7 -> v
    [] t = 8 -> EncBinary(v)
    [] t \in {9, 10} -> EncListHeader(v.et, Len(v.xs)) \o EncElems(v.et, v.xs)
    [] t = 11 -> IF Len(v.ks) = 0 THEN <<0>>
                 ELSE EncVarint(Len(v.ks)) \o <<v.kt * 16 + v.vt>>
                      \o EncPairs(v.kt, v.vt, v.ks, v.vs)
    [] OTHER -> EncFields(v, 0)

EncStruct(fields) == EncFields(fields, 0)

\* The fields of an optional value: none when absent (<<>>), one when
\* present (<<v>>)
OptFld(id, t, opt) == IF Len(opt) = 0 THEN <<>> ELSE <<Fld(id, t, opt[1])>>

\* ------------------------------------------------------------------------
\* Input construction: a FileMetaData description and its Thrift value tree
\* (parquet.thrift field ids).  desc.unk = [at, kind] adds one field the
\* struct `at` does not define; desc.omit is the set of <<struct, field id>>
\* left out of the encoding.
\* ------------------------------------------------------------------------

UnknownKinds ==
  {"bool", "i8", "i16", "i32", "i64", "double", "binary", "list_i32",
   "list_bool", "set_binary", "map_empty", "map", "struct", "struct_nested"}

UnknownPlaces == {"file", "rowgroup", "chunk", "colmeta", "stats"}

NoUnknown == [at |-> "none", kind |-> "none"]

UnknownField(id, kind) ==
  CASE kind = "bool" -> Fld(id, 1, 0)
    [] kind = "i8" -> Fld(id, 3, 7)
    [] kind = "i16" -> Fld(id, 4, -2)
    [] kind = "i32" -> Fld(id, 5, 300)
    [] kind = "i64" -> Fld(id, 6, -1)
    [] kind = "double" -> Fld(id, 7, <<0, 0, 0, 0, 0, 0, 240, 63>>)
    [] kind = "binary" -> Fld(id, 8, <<104, 105>>)
    [] kind = "list_i32" -> Fld(id, 9, [et |-> 5, xs |-> <<1, 2>>])
    [] kind = "list_bool" -> Fld(id, 9, [et |-> 1, xs |-> <<1, 2>>])
    [] kind = "set_binary" -> Fld(id, 10, [et |-> 8, xs |-> <<<<97>>>>])
    [] kind = "map_empty" -> Fld(id, 11, [kt |-> 8, vt |-> 8, ks |-> <<>>, vs |-> <<>>])
    [] kind = "map" -> Fld(id, 11, [kt |-> 8, vt |-> 8, ks |-> << <<>> >>, vs |-> << <<>> >>])
    [] kind = "struct" -> Fld(id, 12, <<Fld(1, 5, 4)>>)
    [] OTHER -> Fld(id, 12, <<Fld(1, 12, <<Fld(2, 1, 0)>>), Fld(3, 8, <<122>>)>>)

UnknownAt(unk, at, id) ==
  IF unk.at = at THEN <<UnknownField(id, unk.kind)>> ELSE <<>>

StatisticsTree(s, unk) ==
  OptFld(1, 8, s.max) \o OptFld(2, 8, s.min)
  \o OptFld(3, 6, s.null_count) \o OptFld(4, 6, s.distinct_count)
  \o OptFld(5, 8, s.max_value) \o OptFld(6, 8, s.min_value)
  \o UnknownAt(unk, "stats", 7)

ColumnMetaTree(c, unk) ==
  <<Fld(1, 5, c.type),
    Fld(2, 9, [et |-> 5, xs |-> <<0>>]),
    Fld(3, 9, [et |-> 8, xs |-> c.path]),
    Fld(4, 5, 0),
    Fld(5, 6, 10), Fld(6, 6, 40), Fld(7, 6, 40),
    Fld(9, 6, 4)>>
  \o (IF Len(c.stats) = 0 THEN <<>>
      ELSE <<Fld(12, 12, StatisticsTree(c.stats[1], unk))>>)
  \o OptFld(14, 6, c.bloom_offset) \o OptFld(15, 6, c.bloom_length)
  \o UnknownAt(unk, "colmeta", 16)

ColumnChunkTree(c, unk) ==
  <<Fld(2, 6, 4), Fld(3, 12, ColumnMetaTree(c, unk))>> \o UnknownAt(unk, "chunk", 10)

\* The unknown field goes into the first column chunk of the first row group
RowGroupTree(rg, unk) ==
  <<Fld(1, 9, [et |-> 12,
               xs |-> [j \in DOMAIN rg.columns |->
                         ColumnChunkTree(rg.columns[j], IF j = 1 THEN unk ELSE NoUnknown)]]),
    Fld(2, 6, rg.total_byte_size),
    Fld(3, 6, rg.num_rows)>>
  \o UnknownAt(unk, "rowgroup", 8)

\* A LogicalType union holding one parameterless variant
LogicalTypeTree(variant) == <<Fld(variant, 12, <<>>)>>

SchemaElementTree(e) ==
  OptFld(1, 5, e.type)
  \o (IF Len(e.type) = 0 THEN <<>> ELSE <<Fld(3, 5, 1)>>)
  \o <<Fld(4, 8, e.name)>>
  \o OptFld(5, 5, e.num_children) \o OptFld(6, 5, e.converted)
  \o (IF Len(e.logical) = 0 THEN <<>>
      ELSE <<Fld(10, 12, LogicalTypeTree(e.logical[1]))>>)

\* The fields of `tree` but those with an id in `ids`
Without(tree, ids) == SelectSeq(tree, LAMBDA f : f.id \notin ids)

\* The ids of the fields desc.omit leaves out of struct `at`
OmittedIds(omit, at) == {o[2] : o \in {o \in omit : o[1] = at}}

FileMetaDataTree(m) ==
  Without(
    <<Fld(1, 5, m.version),
      Fld(2, 9, [et |-> 12, xs |-> [i \in DOMAIN m.schema |-> SchemaElementTree(m.schema[i])]]),
      Fld(3, 6, m.num_rows),
      Fld(4, 9, [et |-> 12,
                 xs |-> [i \in DOMAIN m.row_groups |->
                           Without(RowGroupTree(m.row_groups[i],
                                                IF i = 1 THEN m.unk ELSE NoUnknown),
                                   OmittedIds(m.omit, "rowgroup"))]])>>
    \o UnknownAt(m.unk, "file", 10),
    OmittedIds(m.omit, "file"))

EncodeFooter(m) == EncStruct(FileMetaDataTree(m))

\* ------------------------------------------------------------------------
\* Input construction: the descriptions the inputs are drawn from.
\* An optional value is <<>> (absent) or <<v>> (present).
\* ------------------------------------------------------------------------

NoStatistics ==
  [max |-> <<>>, min |-> <<>>, null_count |-> <<>>, distinct_count |-> <<>>,
   max_value |-> <<>>, min_value |-> <<>>]

\* Column chunk "x" of physical type `type`
ColumnDesc(type, path, stats, bloom_offset, bloom_length) ==
  [type |-> type, path |-> path, stats |-> stats,
   bloom_offset |-> bloom_offset, bloom_length |-> bloom_length]

SchemaDesc(name, type, num_children, converted, logical) ==
  [name |-> name, type |-> type, num_children |-> num_children,
   converted |-> converted, logical |-> logical]

RowGroupDesc(columns) == [columns |-> columns, total_byte_size |-> 40, num_rows |-> 10]

\* root "s" with one INT32 leaf "x"
BaseSchema ==
  <<SchemaDesc(<<115>>, <<>>, <<1>>, <<>>, <<>>),
    SchemaDesc(<<120>>, <<1>>, <<>>, <<>>, <<>>)>>

MetaDesc(version, schema, row_groups, unk) ==
  [version |-> version, schema |-> schema, num_rows |-> 10,
   row_groups |-> row_groups, unk |-> unk, omit |-> {}]

OneColumn(col, unk) == MetaDesc(1, BaseSchema, <<RowGroupDesc(<<col>>)>>, unk)

BaseColumn == ColumnDesc(1, <<<<120>>>>, <<>>, <<>>, <<>>)

BaseMeta == OneColumn(BaseColumn, NoUnknown)

\* ------------------------------------------------------------------------
\* metadata_reader.pyx: decode_value and read_metadata.  A Python value is
\* [t, n, b]: bytes (b), int (n), str (b holds its characters), float (b
\* holds the IEEE bits, little-endian), and the INT96 text (b holds the
\* twelve bytes it is formatted from).
\* ------------------------------------------------------------------------

PyBytes(b) == [t |-> "bytes", n |-> 0, b |-> b]

PyInt(n) == [t |-> "int", n |-> n, b |-> <<>>]

PyStr(s) == [t |-> "str", n |-> 0, b |-> s]

PyFloat(bits) == [t |-> "float", n |-> 0, b |-> bits]

PyInt96Text(b) == [t |-> "int96_text", n |-> 0, b |-> b]

HexDigit(d) == IF d < 10 THEN 48 + d ELSE 87 + d

\* bytes.hex()
RECURSIVE Hex(_)
Hex(b) ==
  IF Len(b) = 0 THEN <<>>
  ELSE <<HexDigit(Head(b) \div 16), HexDigit(Head(b) % 16)>> \o Hex(Tail(b))

\* The little-endian two's-complement value of b, from its top byte down
RECURSIVE SignedLE(_)
SignedLE(b) ==
  IF Len(b) = 1 THEN (IF b[1] >= 128 THEN b[1] - 256 ELSE b[1])
  ELSE SignedLE(Tail(b)) * 256 + Head(b)

\* struct.unpack of a fixed-size format raises struct.error on any other
\* length, which decode_value's except clause turns into b.hex()
UnpackOrHex(b, size, isInt) ==
  IF Len(b) # size THEN PyStr(Hex(b))
  ELSE IF isInt THEN PyInt(SignedLE(b)) ELSE PyFloat(b)

decode_value(physical_type, raw) ==
  IF Len(raw) = 0 THEN PyBytes(<<>>)
  ELSE CASE physical_type = "INT32" -> UnpackOrHex(raw, 4, TRUE)
         [] physical_type = "INT64" -> UnpackOrHex(raw, 8, TRUE)
         [] physical_type = "FLOAT" -> UnpackOrHex(raw, 4, FALSE)
         [] physical_type = "DOUBLE" -> UnpackOrHex(raw, 8, FALSE)
         [] physical_type \in {"BYTE_ARRAY", "FIXED_LEN_BYTE_ARRAY"} -> PyBytes(raw)
         [] physical_type = "INT96" ->
              IF Len(raw) = 12 THEN PyInt96Text(raw) ELSE PyStr(Hex(raw))
         [] OTHER -> PyStr(Hex(raw))

\* col.name.decode("utf-8"): ASCII bytes decode to themselves; any other
\* byte is taken to raise UnicodeDecodeError
Utf8Ok(s) == \A i \in DOMAIN s : s[i] < 128

\* One entry of rg_dict["columns"]
ColumnDict(col) ==
  [name |-> col.name,
   type |-> col.physical_type,
   logical_type |-> col.logical_type,
   min |-> decode_value(col.physical_type, col.min),
   max |-> decode_value(col.physical_type, col.max),
   null_count |-> col.null_count,
   bloom_offset |-> col.bloom_offset,
   bloom_length |-> col.bloom_length]

RowGroupDict(rg) ==
  [num_rows |-> rg.num_rows,
   total_byte_size |-> rg.total_byte_size,
   columns |-> [j \in DOMAIN rg.columns |-> ColumnDict(rg.columns[j])]]

\* The dictionary read_metadata builds from a FileStats
MetadataDict(f) ==
  [num_rows |-> f.num_rows,
   row_groups |-> [i \in DOMAIN f.row_groups |-> RowGroupDict(f.row_groups[i])]]

AllNamesDecode(f) ==
  \A i \in DOMAIN f.row_groups :
    \A j \in DOMAIN f.row_groups[i].columns : Utf8Ok(f.row_groups[i].columns[j].name)

\* ------------------------------------------------------------------------
\* metadata.cpp: the footer locator's helpers
\* ------------------------------------------------------------------------

PAR1 == <<80, 65, 82, 49>>

ReadLE32(t) == t[1] + 256 * t[2] + 65536 * t[3] + 16777216 * t[4]

\* MagicMatches with the comparison one byte short: memcmp(trailer + 4, "PAR1", 3)
MagicMatchesThreeBytes(t) == SubSeq(t, 5, 7) = SubSeq(PAR1, 1, 3)

\* memcmp(trailer + 4, "PAR1", 4) == 0
MagicMatches(t) == SubSeq(t, 5, 8) = PAR1

\* std::vector<uint8_t> footer(footer_len): value-initialised
Zeros(n) == [i \in 1..n |-> 0]

\* ------------------------------------------------------------------------
\* Input construction: the scenarios.  A scenario is a file on disk:
\*   lead ++ footer[1..cut] ++ LE32(declared) ++ magic, or its last `short`
\* bytes; cut = -1 keeps the whole footer, declared = <<>> declares the
\* footer's true length.
\* ------------------------------------------------------------------------

\* Longest path_in_schema drawn
MaxPathLen == 3

\* Most row groups drawn
MaxRowGroups == 2

RECURSIVE SeqsUpTo(_, _)
SeqsUpTo(S, n) ==
  IF n = 0 THEN {<<>>}
  ELSE LET T == SeqsUpTo(S, n - 1) IN T \cup {Append(t, x) : t \in T, x \in S}

PathParts == {<<>>, <<97>>, <<98, 99>>}

PathMetas ==
  {OneColumn(ColumnDesc(1, path, <<>>, <<>>, <<>>), NoUnknown) :
     path \in SeqsUpTo(PathParts, MaxPathLen)}

OptCounts == {<<>>, <<0>>, <<3>>}

StatsOf(null_count, distinct_count) ==
  IF Len(null_count) = 0 /\ Len(distinct_count) = 0 THEN <<>>
  ELSE <<[NoStatistics EXCEPT !.null_count = null_count,
                              !.distinct_count = distinct_count]>>

\* Row groups 1..n, each with the varied column and a second, fixed one
CountRowGroups(n, col) ==
  [i \in 1..n |->
     RowGroupDesc(<<col, ColumnDesc(6, <<<<121>>>>, StatsOf(<<i>>, <<>>), <<>>, <<8>>)>>)]

CountMetas ==
  {MetaDesc(2, BaseSchema,
            CountRowGroups(n, ColumnDesc(1, <<<<120>>>>, StatsOf(nc, dc), bo, bl)),
            NoUnknown) :
     nc \in OptCounts, dc \in OptCounts, bo \in {<<>>, <<0>>, <<100>>},
     bl \in {<<>>, <<0>>, <<44>>}, n \in {MaxRowGroups}}

\* An optional byte string: absent, present and empty, present and `s`
OptBytes(s) == {<<>>, << <<>> >>, <<s>>}

StatsMetas ==
  {OneColumn(ColumnDesc(typ, <<<<120>>>>,
                        <<[NoStatistics EXCEPT !.min = lmin, !.min_value = vmin,
                                               !.max = lmax, !.max_value = vmax]>>,
                        <<>>, <<>>), NoUnknown) :
     lmin \in OptBytes(<<97>>), vmin \in OptBytes(<<5, 0, 0, 0>>),
     lmax \in {<<>>, <<<<122>>>>}, vmax \in OptBytes(<<10, 0, 0, 0>>),
     typ \in {1, 6}}
  \cup {OneColumn(BaseColumn, NoUnknown)}

FlatSchema(type, converted, logical) ==
  <<SchemaDesc(<<115>>, <<>>, <<1>>, <<>>, <<>>),
    SchemaDesc(<<120>>, <<type>>, <<>>, converted, logical)>>

NestedSchema(type, converted, logical) ==
  <<SchemaDesc(<<115>>, <<>>, <<1>>, <<>>, <<>>),
    SchemaDesc(<<97>>, <<>>, <<1>>, <<>>, <<>>),
    SchemaDesc(<<98>>, <<type>>, <<>>, converted, logical)>>

SchemaMetas ==
  {MetaDesc(version,
            IF nested THEN NestedSchema(type, converted, logical)
            ELSE FlatSchema(type, converted, logical),
            <<RowGroupDesc(<<ColumnDesc(type,
                                        IF nested THEN <<<<97>>, <<98>>>> ELSE <<<<120>>>>,
                                        <<>>, <<>>, <<>>)>>)>>,
            NoUnknown) :
     version \in {1, 2}, nested \in BOOLEAN, type \in {1, 6},
     converted \in {<<>>, <<0>>, <<6>>}, logical \in {<<>>, <<1>>, <<6>>}}

\* One column of every physical type code, and of a code beyond them, under a
\* schema leaf that declares no logical type
TypeMetas ==
  {MetaDesc(version, FlatSchema(type, <<>>, <<>>),
            <<RowGroupDesc(<<ColumnDesc(type, <<<<120>>>>, <<>>, <<>>, <<>>)>>)>>,
            NoUnknown) :
     version \in {1, 2}, type \in 0..8}

\* The fields parquet.thrift requires of FileMetaData and RowGroup that the
\* parser reads: <<struct, field id>>
RequiredFields ==
  {<<"file", 3>>, <<"file", 4>>, <<"rowgroup", 1>>, <<"rowgroup", 2>>, <<"rowgroup", 3>>}

\* Footers with one required field left out
OmitMetas ==
  {[m EXCEPT !.omit = {o}] :
     o \in RequiredFields,
     m \in {MetaDesc(1, BaseSchema, CountRowGroups(n, BaseColumn), NoUnknown) :
              n \in 1..MaxRowGroups}}

\* A footer with statistics and bloom fields in both of its columns
RichMeta(unk) ==
  MetaDesc(1, BaseSchema,
           <<RowGroupDesc(
               <<ColumnDesc(1, <<<<120>>>>,
                            <<[NoStatistics EXCEPT !.min_value = <<<<5, 0, 0, 0>>>>,
                                                   !.null_count = <<0>>]>>,
                            <<100>>, <<44>>),
                 ColumnDesc(6, <<<<121>>>>,
                            <<[NoStatistics EXCEPT !.max = <<<<122>>>>,
                                                   !.distinct_count = <<3>>]>>,
                            <<>>, <<>>)>>)>>,
           unk)

UnknownMetas ==
  {RichMeta([at |-> at, kind |-> kind]) : at \in UnknownPlaces, kind \in UnknownKinds}

WholeFile(m) ==
  [meta |-> m, cut |-> -1, declared |-> <<>>, magic |-> PAR1, lead |-> PAR1,
   short |-> <<>>, exists |-> TRUE]

\* Footers cut at every byte
TruncMetas ==
  {BaseMeta, RichMeta(NoUnknown),
   RichMeta([at |-> "file", kind |-> "map"]),
   RichMeta([at |-> "stats", kind |-> "double"])}

TruncScenarios ==
  UNION {{[WholeFile(m) EXCEPT !.cut = k] : k \in 0..(Len(EncodeFooter(m)) - 1)} :
           m \in TruncMetas}

Magics == {PAR1, <<80, 65, 82, 69>>, <<80, 65, 82, 50>>, <<49, 82, 65, 80>>, <<0, 0, 0, 0>>}

\* Declared footer lengths: the true one, zero, and some beyond the file
TrailerScenarios ==
  {[WholeFile(RichMeta(NoUnknown)) EXCEPT !.magic = mg, !.declared = d, !.lead = ld, !.cut = c] :
     mg \in Magics, d \in {<<>>, <<0>>, <<1>>, <<200>>}, ld \in {<<>>, PAR1}, c \in {-1, 0}}

ShortScenarios ==
  {[WholeFile(BaseMeta) EXCEPT !.short = <<n>>] : n \in 0..7}

MissingFile == [WholeFile(BaseMeta) EXCEPT !.exists = FALSE]

Scenarios ==
  {WholeFile(m) : m \in PathMetas \cup CountMetas \cup StatsMetas \cup SchemaMetas
                              \cup TypeMetas \cup OmitMetas \cup UnknownMetas}
  \cup TruncScenarios \cup TrailerScenarios \cup ShortScenarios \cup {MissingFile}

LE32(n) ==
  <<n % 256, (n \div 256) % 256, (n \div 65536) % 256, (n \div 16777216) % 256>>

FooterOf(s) ==
  LET whole == EncodeFooter(s.meta) IN
  IF s.cut < 0 THEN whole ELSE SubSeq(whole, 1, s.cut)

FileOf(s) ==
  LET footer == FooterOf(s)
      len == IF Len(s.declared) = 0 THEN Len(footer) ELSE s.declared[1]
      whole == s.lead \o footer \o LE32(len) \o s.magic
  IN IF Len(s.short) = 0 THEN whole
     ELSE SubSeq(whole, Len(whole) - s.short[1] + 1, Len(whole))

\* ------------------------------------------------------------------------
\* The state: one call of read_metadata(path) on the scenario's file
\* ------------------------------------------------------------------------

VARIABLES
  sc,         \* the scenario the file was built from
  file,       \* the bytes of the file at `path`
  pc,         \* the call's position
  stream_ok,  \* std::ifstream f: !f.fail()
  trailer,    \* uint8_t trailer[8]
  footer,     \* std::vector<uint8_t> footer
  fs,         \* the FileStats ParseFileMeta returned
  err,        \* what() of the exception raised
  nreads,     \* calls of f.read so far
  py,         \* the dictionary read_metadata returned
  call,       \* a call of one of the other functions: its name and arguments
  ret,        \* what that call has returned or raised, once it has
  dec         \* the fields of a ParquetDecoder object

vars == <<sc, file, pc, stream_ok, trailer, footer, fs, err, nreads, py, call, ret, dec>>

\* The variables of the read_metadata call
readVars == <<sc, file, pc, stream_ok, trailer, footer, fs, err, nreads, py>>

\* No other function is being called
NoCall == [fn |-> "none"]

\* No ParquetDecoder has been constructed
NoDecoder == [made |-> FALSE]

\* The call has not returned yet
Pending == [done |-> FALSE]

\* The call returned v
Returns(v) == [done |-> TRUE, raised |-> FALSE, aborted |-> FALSE, v |-> v]

\* The call raised an exception of class e
Raises(e) == [done |-> TRUE, raised |-> TRUE, aborted |-> FALSE, v |-> e]

\* The process ended without returning or raising (a fault the runtime does
\* not turn into an exception)
Aborts(e) == [done |-> TRUE, raised |-> FALSE, aborted |-> TRUE, v |-> e]

\* sizeof trailer
TrailerSize == 8

\* What an unwritten trailer[8] may hold
GarbageTrailers ==
  {<<0, 0, 0, 0, 0, 0, 0, 0>>, <<0, 0, 0, 0>> \o PAR1, <<2, 0, 0, 0>> \o PAR1,
   <<7, 7, 7, 7, 7, 7, 7, 7>>}

Init ==
  /\ sc \in Scenarios
  /\ file = FileOf(sc)
  /\ pc = "open"
  /\ stream_ok = TRUE
  /\ trailer = <<>>
  /\ footer = <<>>
  /\ fs = NewFileStats
  /\ err = ""
  /\ nreads = 0
  /\ py = MetadataDict(NewFileStats)
  /\ call = NoCall
  /\ ret = Pending
  /\ dec = NoDecoder

\* std::ifstream f(path, binary | ate); if (!f.is_open()) throw ...
OpenFile ==
  /\ pc = "open"
  /\ IF sc.exists
     THEN pc' = "read_trailer" /\ err' = err
     ELSE pc' = "raised" /\ err' = "Failed to open file"
  /\ UNCHANGED <<sc, file, stream_ok, trailer, footer, fs, nreads, py, call, ret, dec>>

\* file_size = f.tellg(); f.seekg(file_size - 8); f.read(trailer, 8).
\* file_size - 8 is computed in size_t: below 8 bytes it wraps, the seek
\* fails, the stream goes bad and read leaves trailer unwritten.
ReadTrailer ==
  /\ pc = "read_trailer"
  /\ LET file_size == Len(file) IN
     IF file_size >= TrailerSize
     THEN /\ trailer' = SubSeq(file, file_size - TrailerSize + 1, file_size)
          /\ stream_ok' = stream_ok
     ELSE /\ trailer' \in GarbageTrailers
          /\ stream_ok' = FALSE
  /\ nreads' = nreads + 1
  /\ pc' = "check_magic"
  /\ UNCHANGED <<sc, file, footer, fs, err, py, call, ret, dec>>

\* if (memcmp(trailer + 4, "PAR1", 4) != 0) throw ...
CheckMagic ==
  /\ pc = "check_magic"
  /\ IF MagicMatches(trailer)
     THEN pc' = "read_footer" /\ err' = err
     ELSE pc' = "raised" /\ err' = "Not a parquet file"
  /\ UNCHANGED <<sc, file, stream_ok, trailer, footer, fs, nreads, py, call, ret, dec>>

\* footer_len = ReadLE32(trailer); footer(footer_len);
\* f.seekg(file_size - 8 - footer_len); f.read(footer.data(), footer_len).
\* A footer_len beyond file_size - 8 wraps the offset: the seek fails and the
\* footer keeps its zeros, as it does when the stream was bad already.
ReadFooter ==
  /\ pc = "read_footer"
  /\ LET file_size == Len(file)
         footer_len == ReadLE32(trailer)
     IN IF stream_ok /\ footer_len <= file_size - TrailerSize
        THEN /\ footer' = SubSeq(file, file_size - TrailerSize - footer_len + 1,
                                 file_size - TrailerSize)
             /\ stream_ok' = TRUE
        ELSE /\ footer' = Zeros(footer_len)
             /\ stream_ok' = FALSE
  /\ nreads' = nreads + 1
  /\ pc' = "parse"
  /\ UNCHANGED <<sc, file, trailer, fs, err, py, call, ret, dec>>

\* return ParseFileMeta(in), or the exception a reader raised
Parse ==
  /\ pc = "parse"
  /\ LET r == ParseFileMeta(footer) IN
     IF r.ok
     THEN pc' = "returned" /\ fs' = r.v /\ err' = err
     ELSE pc' = "raised" /\ fs' = fs /\ err' = r.err
  /\ UNCHANGED <<sc, file, stream_ok, trailer, footer, nreads, py, call, ret, dec>>

\* read_metadata: the dictionary built from the FileStats
BuildDict ==
  /\ pc = "returned"
  /\ IF AllNamesDecode(fs)
     THEN pc' = "py_returned" /\ py' = MetadataDict(fs) /\ err' = err
     ELSE pc' = "raised" /\ py' = py /\ err' = "UnicodeDecodeError"
  /\ UNCHANGED <<sc, file, stream_ok, trailer, footer, fs, nreads, call, ret, dec>>

Next == OpenFile \/ ReadTrailer \/ CheckMagic \/ ReadFooter \/ Parse \/ BuildDict

Spec == Init /\ [][Next]_vars

\* ------------------------------------------------------------------------
\* Properties
\* ------------------------------------------------------------------------

\* The call returned a FileStats (to the Python layer or beyond it)
Returned == pc \in {"returned", "py_returned"}

\* The call is over
Ended == pc \in {"returned", "py_returned", "raised"}

\* The last four bytes of the file
Last4(f) == SubSeq(f, Len(f) - 3, Len(f))

\* The little-endian u32 before the trailing magic
DeclaredLen(f) == ReadLE32(SubSeq(f, Len(f) - 7, Len(f) - 4))

\* A scenario that is a whole, well-formed file: nothing cut, the true footer
\* length declared, the magic in place
Clean(s) ==
  /\ s.exists
  /\ s.cut = -1
  /\ Len(s.declared) = 0
  /\ s.magic = PAR1
  /\ Len(s.short) = 0

\* C1: a file of at least 8 bytes whose last 4 bytes are not "PAR1" is
\* rejected: the call never gets past the magic check, never returns a
\* FileStats, and what it raises is "Not a parquet file".
C1_BadMagicRejected ==
  (sc.exists /\ Len(file) >= 8 /\ Last4(file) # PAR1) =>
    /\ pc \in {"open", "read_trailer", "check_magic", "raised"}
    /\ ~Returned
    /\ (pc = "raised" => err = "Not a parquet file")

\* C1 witness: such a file, a near-miss magic included, has been rejected
C1_Witness ==
  /\ sc.exists /\ Len(file) >= 8
  /\ Last4(file) = <<80, 65, 82, 50>>
  /\ pc = "raised" /\ err = "Not a parquet file"

\* C2: on a file of fewer than 8 bytes the call fails before reading: f.read
\* is never called and no FileStats is returned.
C2_TooSmallBeforeReading ==
  (sc.exists /\ Len(file) < 8) => (nreads = 0 /\ ~Returned)

\* C3: on a file of at least 8 bytes ending in "PAR1" whose declared footer
\* length is 0 or exceeds the file size less 8, the call returns no FileStats.
C3_BadFooterLenRejected ==
  (/\ sc.exists /\ Len(file) >= 8 /\ Last4(file) = PAR1
   /\ (DeclaredLen(file) = 0 \/ DeclaredLen(file) > Len(file) - 8))
  => ~Returned

\* C4: a footer that is a strict prefix of a well-formed FileMetaData
\* encoding makes ParseFileMeta raise: no FileStats is returned.
C4_NoPartialResult ==
  (/\ sc.exists /\ sc.cut >= 0 /\ sc.cut < Len(EncodeFooter(sc.meta))
   /\ Len(sc.declared) = 0 /\ sc.magic = PAR1 /\ Len(sc.short) = 0)
  => ~Returned

\* The FileStats of the scenario's footer without its unknown field
WithoutUnknown(s) == ParseFileMeta(EncodeFooter([s.meta EXCEPT !.unk = NoUnknown]))

\* C5: a footer with one more field, of an id its struct does not define,
\* parses without error to the FileStats of the footer without that field.
C5_UnknownFieldsSkipped ==
  (Clean(sc) /\ sc.meta.unk.at # "none" /\ Ended) =>
    /\ pc # "raised"
    /\ WithoutUnknown(sc).ok
    /\ fs = WithoutUnknown(sc).v

\* The first column chunk of the first row group: as described in the
\* scenario, as decoded, and as read_metadata reports it
DescColumn(s) == s.meta.row_groups[1].columns[1]

FirstColumn(f) == f.row_groups[1].columns[1]

\* A scenario made of the fields parquet.thrift defines, whole and well-formed
Plain(s) == Clean(s) /\ s.meta.unk.at = "none" /\ s.meta.omit = {}

\* C6: when a Statistics struct carries both the legacy and the v2 field, the
\* decoded min (max) is the v2 value, the empty byte string included.
C6_V2StatisticsWin ==
  (Plain(sc) /\ Len(DescColumn(sc).stats) = 1 /\ pc = "returned") =>
    LET st == DescColumn(sc).stats[1] IN
    /\ (Len(st.min) = 1 /\ Len(st.min_value) = 1) => FirstColumn(fs).min = st.min_value[1]
    /\ (Len(st.max) = 1 /\ Len(st.max_value) = 1) => FirstColumn(fs).max = st.max_value[1]

\* The scenario's footer with min and min_value taken out of the Statistics
NoMinMeta(s) ==
  [s.meta EXCEPT !.row_groups[1].columns[1].stats[1].min = <<>>,
                 !.row_groups[1].columns[1].stats[1].min_value = <<>>]

\* C7: a min_value that is present and empty decodes to a min that differs
\* from the one decoded without any min or min_value field, in the
\* ColumnStats and in the dictionary read_metadata returns.
C7_EmptyIsNotAbsent ==
  (/\ Plain(sc) /\ Len(DescColumn(sc).stats) = 1
   /\ DescColumn(sc).stats[1].min_value = << <<>> >>
   /\ pc = "py_returned") =>
    LET absent == ParseFileMeta(EncodeFooter(NoMinMeta(sc))).v IN
    /\ FirstColumn(fs).min # FirstColumn(absent).min
    /\ FirstColumn(py).min # FirstColumn(MetadataDict(absent)).min

\* What an optional integer surfaces as: -1 when absent, its value when present
Surfaced(opt) == IF Len(opt) = 0 THEN -1 ELSE opt[1]

StatCount(c, field) == IF Len(c.stats) = 0 THEN <<>> ELSE c.stats[1][field]

\* C8: null_count, distinct_count, bloom_offset and bloom_length of every
\* column chunk are -1 when their field is absent and the encoded value when
\* it is present, in the ColumnStats and, unchanged, in the dictionary
\* read_metadata returns.
C8_AbsentIntegersAreMinusOne ==
  (Plain(sc) /\ pc = "py_returned") =>
    \A i \in DOMAIN sc.meta.row_groups :
      \A j \in DOMAIN sc.meta.row_groups[i].columns :
        LET d == sc.meta.row_groups[i].columns[j]
            c == fs.row_groups[i].columns[j]
            p == py.row_groups[i].columns[j]
        IN /\ c.null_count = Surfaced(StatCount(d, "null_count"))
           /\ c.distinct_count = Surfaced(StatCount(d, "distinct_count"))
           /\ c.bloom_offset = Surfaced(d.bloom_offset)
           /\ c.bloom_length = Surfaced(d.bloom_length)
           /\ p.null_count = c.null_count
           /\ p.bloom_offset = c.bloom_offset
           /\ p.bloom_length = c.bloom_length
           /\ "distinct_count" \in DOMAIN p
           /\ p.distinct_count = c.distinct_count

\* s1 + '.' + s2 + ... + '.' + sn
RECURSIVE JoinDotted(_)
JoinDotted(parts) ==
  IF Len(parts) = 0 THEN <<>>
  ELSE IF Len(parts) = 1 THEN parts[1]
  ELSE parts[1] \o <<46>> \o JoinDotted(Tail(parts))

\* C9: the decoded name of a column chunk is its path_in_schema joined with
\* '.', empty components included.
C9_NameIsJoinedPath ==
  (Plain(sc) /\ pc = "returned") =>
    FirstColumn(fs).name = JoinDotted(DescColumn(sc).path)

\* The logical type a schema leaf declares: its logicalType variant, else its
\* converted_type; "" when it declares none the tables name
DeclaredLogicalType(e) ==
  IF Len(e.logical) = 1 THEN LogicalVariantName(e.logical[1])
  ELSE IF Len(e.converted) = 1 THEN LogicalTypeToString(e.converted[1])
  ELSE ""

\* The dotted path of schema element k: the names from the element after the
\* root down to k (the scenarios' schemas are single chains)
SchemaPath(schema, k) == JoinDotted([i \in 1..(k - 1) |-> schema[i + 1].name])

\* C10: a column chunk named by the dotted path of a schema leaf that
\* declares a logical type reports that logical type.
C10_SchemaLogicalTypeReachesColumn ==
  (Plain(sc) /\ pc = "returned") =>
    LET schema == sc.meta.schema
        leaf == schema[Len(schema)]
    IN (/\ DeclaredLogicalType(leaf) # ""
        /\ FirstColumn(fs).name = SchemaPath(schema, Len(schema)))
       => FirstColumn(fs).logical_type = DeclaredLogicalType(leaf)

\* The dotted leaf paths of a schema (the scenarios' schemas are single
\* chains below the root, so the last element is the one leaf)
LeafPaths(schema) == {SchemaPath(schema, Len(schema))}

\* C11: every column chunk a decode returns is named by the dotted path of a
\* schema leaf; a footer with a column chunk that names no leaf is not decoded.
C11_ColumnNamesAreLeafPaths ==
  (Plain(sc) /\ Returned) =>
    \A i \in DOMAIN fs.row_groups :
      \A j \in DOMAIN fs.row_groups[i].columns :
        fs.row_groups[i].columns[j].name \in LeafPaths(sc.meta.schema)

\* The fallback for a physical type code: BYTE_ARRAY (6) is a STRING, INT96
\* (3) a nanosecond TIMESTAMP, every other code has none
FallbackLogicalType(type) ==
  CASE type = 6 -> "STRING"
    [] type = 3 -> "TIMESTAMP_NANOS"
    [] OTHER -> ""

\* The scenario's schema leaf declares neither logicalType nor converted_type
\* and the first column chunk is its column
UntypedLeaf(s) ==
  LET leaf == s.meta.schema[Len(s.meta.schema)] IN
  /\ Len(leaf.logical) = 0 /\ Len(leaf.converted) = 0
  /\ JoinDotted(DescColumn(s).path) = SchemaPath(s.meta.schema, Len(s.meta.schema))

\* C13: a column chunk whose schema leaf declares neither logicalType nor
\* converted_type gets the fallback of its physical type: STRING for
\* BYTE_ARRAY, a nanosecond TIMESTAMP for INT96, none for every other type.
C13_FallbackLogicalTypes ==
  (Plain(sc) /\ UntypedLeaf(sc) /\ Returned) =>
    FirstColumn(fs).logical_type = FallbackLogicalType(DescColumn(sc).type)

\* An INT96 column under an untyped leaf came back as a nanosecond TIMESTAMP
C13_Witness ==
  /\ Plain(sc) /\ UntypedLeaf(sc) /\ Returned
  /\ DescColumn(sc).type = 3
  /\ FirstColumn(fs).physical_type = "INT96"
  /\ FirstColumn(fs).logical_type = "TIMESTAMP_NANOS"

\* ------------------------------------------------------------------------
\* Calls of the other functions.  A call is drawn with its arguments, runs
\* once and leaves what it returned or raised in `ret`.
\* ------------------------------------------------------------------------

\* A read_metadata call that is not taking place
ReadIdle ==
  /\ sc = MissingFile
  /\ file = <<>>
  /\ pc = "idle"
  /\ stream_ok = TRUE
  /\ trailer = <<>>
  /\ footer = <<>>
  /\ fs = NewFileStats
  /\ err = ""
  /\ nreads = 0
  /\ py = MetadataDict(NewFileStats)

\* A LogicalType union value: its variant's field id and the variant's own
\* fields.  unit_as tells how a TIME or TIMESTAMP unit is written: "i32" as
\* an enum code, "union" as the nested union of empty structs.
LogicalDesc(variant, a, b, unit_as) ==
  [variant |-> variant, a |-> a, b |-> b, unit_as |-> unit_as]

\* b is 1 for true, 0 for false
BoolFld(id, b) == Fld(id, IF b = 1 THEN 1 ELSE 2, 0)

LogicalParamsTree(l) ==
  CASE l.variant = 5 -> <<Fld(1, 5, l.a), Fld(2, 5, l.b)>>
    [] l.variant \in {7, 8} ->
         <<BoolFld(1, l.a),
           IF l.unit_as = "i32" THEN Fld(2, 5, l.b)
           ELSE Fld(2, 12, <<Fld(l.b + 1, 12, <<>>)>>)>>
    [] l.variant = 9 -> <<Fld(1, 3, l.a), BoolFld(2, l.b)>>
    [] OTHER -> <<>>

LogicalDescTree(l) == <<Fld(l.variant, 12, LogicalParamsTree(l))>>

LogicalDescs ==
  {LogicalDesc(v, 0, 0, "none") : v \in {1, 2, 3, 4, 6, 10, 11, 12, 13}}
  \cup {LogicalDesc(5, 2, 9, "none")}
  \cup {LogicalDesc(v, utc, unit, as) :
          v \in {7, 8}, utc \in {0, 1}, unit \in 0..2, as \in {"i32", "union"}}
  \cup {LogicalDesc(9, w, signed, "none") : w \in {8, 64}, signed \in {0, 1}}

\* A SchemaElement "x" carrying converted_type and logicalType, in the order
\* of their field ids or the other way round
BothTypesTree(converted, l, logical_first) ==
  <<Fld(1, 5, 1), Fld(4, 8, <<120>>)>>
  \o (IF logical_first
      THEN <<Fld(10, 12, LogicalDescTree(l)), Fld(6, 5, converted)>>
      ELSE <<Fld(6, 5, converted), Fld(10, 12, LogicalDescTree(l))>>)

ConvertedCodes == {0, 1, 6, 7, 15, 22}

\* What follows the schema list in a footer: num_rows, no row groups, STOP
AfterSchema == EncFields(<<Fld(3, 6, 10), Fld(4, 9, [et |-> 12, xs |-> <<>>])>>, 2)

BothTypesCalls ==
  {[fn |-> "ParseSchemaElement", both |-> TRUE,
    converted |-> c, logical |-> l, logical_first |-> lf,
    buf |-> EncStruct(BothTypesTree(c, l, lf)) \o AfterSchema] :
     c \in ConvertedCodes, l \in LogicalDescs, lf \in BOOLEAN}

\* A SchemaElement with converted_type and no logicalType, of physical type
\* `type`
ConvertedOnlyTree(type, converted) ==
  <<Fld(1, 5, type), Fld(3, 5, 1), Fld(4, 8, <<120>>), Fld(6, 5, converted)>>

\* Every converted_type code of the table, and one on each side of it
ConvertedOnlyCalls ==
  {[fn |-> "ParseSchemaElement", both |-> FALSE, converted |-> c,
    buf |-> EncStruct(ConvertedOnlyTree(t, c)) \o AfterSchema] :
     c \in -1..22, t \in {1, 2, 6}}

SchemaElementCalls == BothTypesCalls \cup ConvertedOnlyCalls

\* SchemaElement elem = ParseSchemaElement(in)
CallParseSchemaElement ==
  /\ call.fn = "ParseSchemaElement"
  /\ ~ret.done
  /\ LET r == ParseSchemaElement(call.buf, 0) IN
     ret' = IF r.ok THEN Returns(r.v) ELSE Raises(r.err)
  /\ UNCHANGED <<call, dec>>
  /\ UNCHANGED readVars

\* ------------------------------------------------------------------------
\* metadata.cpp: the bloom filter test.  A uint32_t is kept as its two
\* 16-bit halves [hi, lo], so that the arithmetic wraps at 2^32 as it does
\* in the code.
\* ------------------------------------------------------------------------

U32(hi, lo) == [hi |-> hi, lo |-> lo]

Add32(x, y) ==
  U32((x.hi + y.hi + ((x.lo + y.lo) \div 65536)) % 65536, (x.lo + y.lo) % 65536)

\* x * k for a k below 2^15
MulSmall(x, k) ==
  U32((x.hi * k + ((x.lo * k) \div 65536)) % 65536, (x.lo * k) % 65536)

\* x << 24
Shl24(x) == U32((x.lo % 256) * 256, 0)

RECURSIVE XorBits(_, _, _)
XorBits(a, b, n) ==
  IF n = 0 THEN 0
  ELSE ((a + b) % 2) + 2 * XorBits(a \div 2, b \div 2, n - 1)

\* h ^= (uint32_t)(unsigned char)c
XorByte(h, c) == U32(h.hi, (h.lo \div 256) * 256 + XorBits(h.lo % 256, c, 8))

\* h *= 0x01000193, which is 2^24 + 0x193
MulFnvPrime(h) == Add32(Shl24(h), MulSmall(h, 403))

\* 0x811c9dc5
FnvOffsetBasis == U32(33052, 40389)

RECURSIVE Hash1Loop(_, _, _)
Hash1Loop(h, data, i) ==
  IF i > Len(data) THEN h
  ELSE Hash1Loop(MulFnvPrime(XorByte(h, data[i])), data, i + 1)

Hash1(data) == Hash1Loop(FnvOffsetBasis, data, 1)

RECURSIVE Hash2Loop(_, _, _)
Hash2Loop(h, data, i) ==
  IF i > Len(data) THEN h
  ELSE Hash2Loop(Add32(MulSmall(h, 33), U32(0, data[i])), data, i + 1)

Hash2(data) == Hash2Loop(U32(0, 5381), data, 1)

\* hash % n for 0 < n <= 1024
Mod32(x, n) == ((x.hi % n) * 65536 + x.lo) % n

\* (hash / n) % 256 for 0 < n <= 1024
DivMod256(x, n) == ((((x.hi % n) * 65536 + x.lo) \div n) % 256)

\* sizeof header
BloomHeaderSize == 12

\* block_size = bits_per_block / 8
BlockSize == 32

\* The length assumed when the header's sizes are implausible
DefaultBloomLength == 1024

MaxHashFunctions == 10

MaxBlocks == 1024

Implausible(num_hash_functions, num_blocks) ==
  \/ num_hash_functions = 0 \/ num_blocks = 0
  \/ num_hash_functions > MaxHashFunctions \/ num_blocks > MaxBlocks

\* f.seekg(off); f.read(buf, n): the n bytes at `off`, or <<>> when the file
\* ends before them and the stream is left not good()
StreamRead(bytes, off, n) ==
  IF off + n <= Len(bytes) THEN <<SubSeq(bytes, off + 1, off + n)>> ELSE <<>>

\* (The default length taken whatever the header says)
ActualBloomLengthDefault(bytes, bloom_offset, bloom_length) ==
  IF bloom_length > 0 THEN <<bloom_length>>
  ELSE IF bloom_offset + BloomHeaderSize > Len(bytes) THEN <<>>
  ELSE <<DefaultBloomLength>>

\* actual_bloom_length: bloom_length when it is given, else the length worked
\* out from the 12-byte header at bloom_offset; <<>> when that header cannot
\* be read and the function returns false
ActualBloomLength(bytes, bloom_offset, bloom_length) ==
  IF bloom_length > 0 THEN <<bloom_length>>
  ELSE IF bloom_offset + BloomHeaderSize > Len(bytes) THEN <<>>
  ELSE IF Implausible(ReadLE32(SubSeq(bytes, bloom_offset + 1, bloom_offset + 4)),
                      ReadLE32(SubSeq(bytes, bloom_offset + 5, bloom_offset + 8)))
       THEN <<DefaultBloomLength>>
  ELSE <<BloomHeaderSize
         + ReadLE32(SubSeq(bytes, bloom_offset + 5, bloom_offset + 8)) * BlockSize>>

\* What the test returns, with the probes it made, in order
Tested(v, probes) == [v |-> v, probes |-> probes, undefined |-> FALSE]

\* The test read a byte outside bloom_data: what it returns is undefined
ReadOutside(probes) == [v |-> FALSE, probes |-> probes, undefined |-> TRUE]

\* hash = h1 + i * h2
ProbeHash(h1, h2, i) == Add32(h1, MulSmall(h2, i))

\* The i-th probe: the block, the byte of the block, the bit of the byte,
\* and the index in bloom_data of the byte block[byte_idx]
Probe(hash, num_blocks) ==
  [block_idx |-> Mod32(hash, num_blocks),
   byte_idx |-> DivMod256(hash, num_blocks) \div 8,
   bit_offset |-> DivMod256(hash, num_blocks) % 8,
   index |-> BloomHeaderSize + Mod32(hash, num_blocks) * BlockSize
             + (DivMod256(hash, num_blocks) \div 8)]

\* block[byte_idx] & (1 << bit_offset)
BitIsSet(data, probe) ==
  ((data[probe.index + 1] \div (2 ^ probe.bit_offset)) % 2) = 1

\* for (uint32_t i = 0; i < num_hash_functions; i++) { ... }
RECURSIVE ProbeLoop(_, _, _, _, _, _, _)
ProbeLoop(data, h1, h2, num_hash_functions, num_blocks, i, probes) ==
  IF i >= num_hash_functions THEN Tested(TRUE, probes)
  ELSE IF Probe(ProbeHash(h1, h2, i), num_blocks).byte_idx >= BlockSize
       THEN ProbeLoop(data, h1, h2, num_hash_functions, num_blocks, i + 1, probes)
  ELSE IF Probe(ProbeHash(h1, h2, i), num_blocks).index >= Len(data)
       THEN ReadOutside(Append(probes, Probe(ProbeHash(h1, h2, i), num_blocks)))
  ELSE IF BitIsSet(data, Probe(ProbeHash(h1, h2, i), num_blocks))
       THEN ProbeLoop(data, h1, h2, num_hash_functions, num_blocks, i + 1,
                      Append(probes, Probe(ProbeHash(h1, h2, i), num_blocks)))
  ELSE Tested(FALSE, Append(probes, Probe(ProbeHash(h1, h2, i), num_blocks)))

\* (The test without the comparison of the length with the blocks declared)
TestBloomDataUnchecked(data, value) ==
  IF Len(data) < BloomHeaderSize THEN Tested(FALSE, <<>>)
  ELSE IF Implausible(ReadLE32(SubSeq(data, 1, 4)), ReadLE32(SubSeq(data, 5, 8)))
       THEN Tested(FALSE, <<>>)
  ELSE ProbeLoop(data, Hash1(value), Hash2(value),
                 ReadLE32(SubSeq(data, 1, 4)), ReadLE32(SubSeq(data, 5, 8)), 0, <<>>)

\* TestBloomFilter from "Parse bloom filter header" on: data is bloom_data
TestBloomData(data, value) ==
  IF Len(data) < BloomHeaderSize THEN Tested(FALSE, <<>>)
  ELSE IF Implausible(ReadLE32(SubSeq(data, 1, 4)), ReadLE32(SubSeq(data, 5, 8)))
       THEN Tested(FALSE, <<>>)
  ELSE IF Len(data) < BloomHeaderSize + ReadLE32(SubSeq(data, 5, 8)) * BlockSize
       THEN Tested(FALSE, <<>>)
  ELSE ProbeLoop(data, Hash1(value), Hash2(value),
                 ReadLE32(SubSeq(data, 1, 4)), ReadLE32(SubSeq(data, 5, 8)), 0, <<>>)

\* After the header: read actual_bloom_length bytes at bloom_offset and test
ReadAndTest(bytes, bloom_offset, len, value) ==
  IF Len(len) = 0 THEN Tested(FALSE, <<>>)
  ELSE IF Len(StreamRead(bytes, bloom_offset, len[1])) = 0 THEN Tested(FALSE, <<>>)
  ELSE TestBloomData(StreamRead(bytes, bloom_offset, len[1])[1], value)

\* bool TestBloomFilter(file_path, bloom_offset, bloom_length, value);
\* disk is what is at file_path: [exists, bytes]
TestBloomFilter(disk, bloom_offset, bloom_length, value) ==
  IF bloom_offset < 0 THEN Tested(FALSE, <<>>)
  ELSE IF ~disk.exists THEN Tested(FALSE, <<>>)
  ELSE ReadAndTest(disk.bytes, bloom_offset,
                   ActualBloomLength(disk.bytes, bloom_offset, bloom_length), value)

\* metadata_reader.pyx: test_bloom_filter
test_bloom_filter(disk, bloom_offset, bloom_length, value) ==
  IF bloom_offset < 0 THEN Tested(FALSE, <<>>)
  ELSE TestBloomFilter(disk, bloom_offset, bloom_length, value)

\* ------------------------------------------------------------------------
\* Input construction: files with a bloom filter in the layout the test
\* reads: num_hash_functions and num_blocks as LE32, 4 more header bytes,
\* then the blocks
\* ------------------------------------------------------------------------

Fill(b, n) == [k \in 1..n |-> b]

\* Byte k (counted from 0) of the blocks in which exactly the bits the test
\* probes for `value` are set
InsertedByte(value, num_hash_functions, num_blocks, k) ==
  LET bits == {b \in 0..7 :
                 \E i \in 0..(num_hash_functions - 1) :
                   /\ Mod32(Add32(Hash1(value), MulSmall(Hash2(value), i)), num_blocks)
                        = k \div BlockSize
                   /\ DivMod256(Add32(Hash1(value), MulSmall(Hash2(value), i)), num_blocks)
                        = (k % BlockSize) * 8 + b}
  IN (IF 0 \in bits THEN 1 ELSE 0) + (IF 1 \in bits THEN 2 ELSE 0)
     + (IF 2 \in bits THEN 4 ELSE 0) + (IF 3 \in bits THEN 8 ELSE 0)
     + (IF 4 \in bits THEN 16 ELSE 0) + (IF 5 \in bits THEN 32 ELSE 0)
     + (IF 6 \in bits THEN 64 ELSE 0) + (IF 7 \in bits THEN 128 ELSE 0)

\* The blocks of a filter: "zeros", "ones", or the bits of the value "a"
BloomBlocks(kind, num_hash_functions, num_blocks) ==
  CASE kind = "zeros" -> Fill(0, num_blocks * BlockSize)
    [] kind = "ones" -> Fill(255, num_blocks * BlockSize)
    [] OTHER -> [k \in 1..(num_blocks * BlockSize) |->
                   InsertedByte(<<97>>, num_hash_functions, num_blocks, k - 1)]

\* A filter whose header declares (nh, nb); the blocks written are nb of
\* them when the two are plausible and one block otherwise
BloomFilterBytes(nh, nb, kind) ==
  LE32(nh) \o LE32(nb) \o <<0, 0, 0, 0>>
  \o (IF Implausible(nh, nb) THEN Fill(0, BlockSize) ELSE BloomBlocks(kind, nh, nb))

\* Most blocks of a filter drawn
MaxBloomBlocks == 2

\* Most hash functions of a filter drawn
MaxBloomHashes == 3

BloomHeaders ==
  {<<nh, nb>> : nh \in (0..MaxBloomHashes) \cup {MaxHashFunctions + 1},
                nb \in (0..MaxBloomBlocks) \cup {MaxBlocks + 1}}

\* The file: "PAR1", the filter at offset 4, eight more bytes
BloomFileBytes(nh, nb, kind) == PAR1 \o BloomFilterBytes(nh, nb, kind) \o Fill(0, 8)

BloomValues == {<<>>, <<97>>, <<98>>, <<97, 98>>}

\* The bloom_length arguments: unknown (-1, 0), too small for a header, the
\* header alone, one byte short of the filter, the filter's length, beyond
\* the file
BloomLengths(nh, nb) ==
  {-1, 0, 5, BloomHeaderSize, Len(BloomFilterBytes(nh, nb, "zeros")) - 1,
   Len(BloomFilterBytes(nh, nb, "zeros")), 2000}

\* The calls on the file of a filter with header h = <<nh, nb>>
CallsOnFilter(h) ==
  {[fn |-> "test_bloom_filter",
    disk |-> [exists |-> TRUE, bytes |-> BloomFileBytes(h[1], h[2], kind)],
    num_hash_functions |-> h[1], num_blocks |-> h[2],
    bloom_offset |-> off, bloom_length |-> len, value |-> v] :
     kind \in {"zeros", "ones", "inserted"}, off \in {-1, 4, 1000},
     len \in BloomLengths(h[1], h[2]), v \in BloomValues}

\* A file long enough for the default length to be read at offset 4: the
\* header, then bytes with every bit set
LongBloomFileBytes(nh, nb) ==
  PAR1 \o LE32(nh) \o LE32(nb) \o <<0, 0, 0, 0>> \o Fill(255, DefaultBloomLength)

\* The calls on the long file, the filter's length not given
LongFileCalls ==
  {[fn |-> "test_bloom_filter",
    disk |-> [exists |-> TRUE, bytes |-> LongBloomFileBytes(h[1], h[2])],
    num_hash_functions |-> h[1], num_blocks |-> h[2],
    bloom_offset |-> 4, bloom_length |-> len, value |-> v] :
     h \in BloomHeaders, len \in {-1, 0}, v \in BloomValues}

BloomFilterCalls ==
  UNION {CallsOnFilter(h) : h \in BloomHeaders}
  \cup LongFileCalls
  \cup {[fn |-> "test_bloom_filter",
         disk |-> [exists |-> FALSE, bytes |-> <<>>],
         num_hash_functions |-> 1, num_blocks |-> 1,
         bloom_offset |-> off, bloom_length |-> len, value |-> v] :
          off \in {-1, 4}, len \in {-1, 44}, v \in BloomValues}

\* The bytes TestBloomFilter has in bloom_data when it tests: none when it
\* returns before reading them or the read fails
LoadedLength(disk, bloom_offset, bloom_length) ==
  IF bloom_offset < 0 \/ ~disk.exists THEN <<>>
  ELSE IF Len(ActualBloomLength(disk.bytes, bloom_offset, bloom_length)) = 0 THEN <<>>
  ELSE IF Len(StreamRead(disk.bytes, bloom_offset,
                         ActualBloomLength(disk.bytes, bloom_offset, bloom_length)[1])) = 0
       THEN <<>>
  ELSE ActualBloomLength(disk.bytes, bloom_offset, bloom_length)

\* test_bloom_filter(file_path, bloom_offset, bloom_length, value): ret.v is
\* the answer, ret.probes the probes made, ret.loaded the length of
\* bloom_data.  After a read outside bloom_data the answer is either one.
CallTestBloomFilter ==
  /\ call.fn = "test_bloom_filter"
  /\ ~ret.done
  /\ \E any \in BOOLEAN :
       ret' = [done |-> TRUE, raised |-> FALSE, aborted |-> FALSE,
               v |-> IF test_bloom_filter(call.disk, call.bloom_offset,
                                          call.bloom_length, call.value).undefined
                     THEN any
                     ELSE test_bloom_filter(call.disk, call.bloom_offset,
                                            call.bloom_length, call.value).v,
               probes |-> test_bloom_filter(call.disk, call.bloom_offset,
                                            call.bloom_length, call.value).probes,
               loaded |-> LoadedLength(call.disk, call.bloom_offset, call.bloom_length)]
  /\ UNCHANGED <<call, dec>>
  /\ UNCHANGED readVars

\* ------------------------------------------------------------------------
\* metadata_reader.pyx: calls of decode_value
\* ------------------------------------------------------------------------

\* Longest raw value drawn
MaxRawLen == 12

RawBases ==
  {<<5, 0, 0, 1, 0, 0, 0, 0, 0, 0, 0, 0, 0>>,
   <<255, 255, 255, 255, 255, 255, 255, 255, 255, 255, 255, 255, 255>>,
   <<0, 0, 128, 63, 0, 0, 0, 0, 1, 2, 3, 4, 5>>}

RawValues == {SubSeq(b, 1, n) : b \in RawBases, n \in 0..MaxRawLen}

PhysicalTypeNames == {ParquetTypeToString(t) : t \in 0..8}

DecodeValueCalls ==
  {[fn |-> "decode_value", physical_type |-> t, raw |-> r] :
     t \in PhysicalTypeNames, r \in RawValues}

\* decode_value(physical_type, raw)
CallDecodeValue ==
  /\ call.fn = "decode_value"
  /\ ~ret.done
  /\ ret' = Returns(decode_value(call.physical_type, call.raw))
  /\ UNCHANGED <<call, dec>>
  /\ UNCHANGED readVars

\* ------------------------------------------------------------------------
\* parquet_decoder.pyx: ParquetDecoder's bloom filter checks.  What PyArrow
\* holds is part of the call: decoder.row_groups[k] is the sequence of the
\* row group's columns [path, filter], where filter.kind is "none" (no bloom
\* filter), "access_raises" (reading it raises) or "object": a filter object
\* whose check and contains tell what each method does: "absent", "true",
\* "false" or "raises".
\* ------------------------------------------------------------------------

FilterObject(check, contains) == [kind |-> "object", check |-> check, contains |-> contains]

\* bloom_filter = None
NoFilter == [kind |-> "none", check |-> "absent", contains |-> "absent"]

\* Reading the bloom filter raises
AccessRaises == [kind |-> "access_raises", check |-> "absent", contains |-> "absent"]

IsFilterObject(f) == f.kind = "object"

\* load_file: TRUE when the stream holds valid parquet data
CanLoad(decoder) == decoder.file_loaded \/ decoder.stream_valid

\* The first column of the row group whose path_in_schema is column_name;
\* 0 when there is none
RECURSIVE FirstColumnNamed(_, _, _)
FirstColumnNamed(columns, column_name, i) ==
  IF i > Len(columns) THEN 0
  ELSE IF columns[i].path = column_name THEN i
  ELSE FirstColumnNamed(columns, column_name, i + 1)

\* The entry get_bloom_filters makes for a column
BloomInfo(filter) ==
  IF IsFilterObject(filter)
  THEN [available |-> TRUE, filter_data |-> filter]
  ELSE [available |-> FALSE, filter_data |-> NoFilter]

\* get_bloom_filters(column_name): the entries by row group index (the key
\* row_group_<index>)
get_bloom_filters(decoder, column_name) ==
  [k \in {k \in 0..(Len(decoder.row_groups) - 1) :
            FirstColumnNamed(decoder.row_groups[k + 1], column_name, 1) > 0} |->
     BloomInfo(decoder.row_groups[k + 1][
                 FirstColumnNamed(decoder.row_groups[k + 1], column_name, 1)].filter)]

\* What a method of the filter object does: "true" and "false" are what it
\* returns
MethodResult(how) == IF how = "raises" THEN Raises("Exception") ELSE Returns(how = "true")

\* The try block of check_bloom_filter
UseFilter(bloom_filter) ==
  IF bloom_filter.check # "absent" THEN MethodResult(bloom_filter.check)
  ELSE IF bloom_filter.contains # "absent" THEN MethodResult(bloom_filter.contains)
  ELSE Returns(TRUE)

\* (The check with a failing filter taken as "definitely not present")
check_bloom_filter_strict(decoder, column_name, value, row_group_idx) ==
  IF ~CanLoad(decoder) THEN Raises("ValueError")
  ELSE IF row_group_idx \notin DOMAIN get_bloom_filters(decoder, column_name)
       THEN Returns(TRUE)
  ELSE IF ~get_bloom_filters(decoder, column_name)[row_group_idx].available
       THEN Returns(TRUE)
  ELSE IF UseFilter(get_bloom_filters(decoder, column_name)[row_group_idx].filter_data).raised
       THEN Returns(FALSE)
  ELSE UseFilter(get_bloom_filters(decoder, column_name)[row_group_idx].filter_data)

\* check_bloom_filter(column_name, value, row_group_idx)
check_bloom_filter(decoder, column_name, value, row_group_idx) ==
  IF ~CanLoad(decoder) THEN Raises("ValueError")
  ELSE IF row_group_idx \notin DOMAIN get_bloom_filters(decoder, column_name)
       THEN Returns(TRUE)
  ELSE IF ~get_bloom_filters(decoder, column_name)[row_group_idx].available
       THEN Returns(TRUE)
  ELSE IF UseFilter(get_bloom_filters(decoder, column_name)[row_group_idx].filter_data).raised
       THEN Returns(TRUE)
  ELSE UseFilter(get_bloom_filters(decoder, column_name)[row_group_idx].filter_data)

\* check_bloom_filter_all_row_groups(column_name, value)
check_bloom_filter_all_row_groups(decoder, column_name, value) ==
  IF ~CanLoad(decoder) THEN Raises("ValueError")
  ELSE Returns([k \in 1..Len(decoder.row_groups) |->
                  check_bloom_filter(decoder, column_name, value, k - 1).v])

\* Most row groups of a decoder's file
MaxDecoderRowGroups == 2

FilterKinds ==
  {NoFilter, AccessRaises}
  \cup {FilterObject(c, n) : c \in {"absent", "true", "false", "raises"},
                             n \in {"absent", "true", "false"}}

\* A row group: column "y" without a filter, then column "x" with `filter`,
\* or column "y" only
DecoderRowGroups ==
  {<<[path |-> "y", filter |-> NoFilter]>>}
  \cup {<<[path |-> "y", filter |-> NoFilter], [path |-> "x", filter |-> f]>> : f \in FilterKinds}

Decoders ==
  {[file_loaded |-> fl, stream_valid |-> TRUE, row_groups |-> rgs] :
     fl \in BOOLEAN, rgs \in SeqsUpTo(DecoderRowGroups, MaxDecoderRowGroups)}
  \cup {[file_loaded |-> FALSE, stream_valid |-> FALSE, row_groups |-> <<>>]}

DecoderCalls ==
  {[fn |-> "check_bloom_filter", decoder |-> d, column_name |-> c, value |-> <<97>>,
    row_group_idx |-> k] :
     d \in Decoders, c \in {"x", "z"}, k \in -1..MaxDecoderRowGroups}
  \cup {[fn |-> "check_bloom_filter_all_row_groups", decoder |-> d, column_name |-> c,
         value |-> <<97>>] :
          d \in Decoders, c \in {"x", "z"}}

\* decoder.check_bloom_filter(column_name, value, row_group_idx)
CallCheckBloomFilter ==
  /\ call.fn = "check_bloom_filter"
  /\ ~ret.done
  /\ ret' = check_bloom_filter(call.decoder, call.column_name, call.value, call.row_group_idx)
  /\ UNCHANGED <<call, dec>>
  /\ UNCHANGED readVars

\* decoder.check_bloom_filter_all_row_groups(column_name, value)
CallCheckAllRowGroups ==
  /\ call.fn = "check_bloom_filter_all_row_groups"
  /\ ~ret.done
  /\ ret' = check_bloom_filter_all_row_groups(call.decoder, call.column_name, call.value)
  /\ UNCHANGED <<call, dec>>
  /\ UNCHANGED readVars

Calls == SchemaElementCalls \cup BloomFilterCalls \cup DecodeValueCalls \cup DecoderCalls

CallInit == ReadIdle /\ call \in Calls /\ ret = Pending /\ dec = NoDecoder

CallNext ==
  \/ CallParseSchemaElement
  \/ CallTestBloomFilter
  \/ CallDecodeValue
  \/ CallCheckBloomFilter
  \/ CallCheckAllRowGroups

CallSpec == CallInit /\ [][CallNext]_vars

\* The names ParseLogicalType gives a variant of the LogicalType union
VariantNames(variant) ==
  CASE variant = 5 -> {"DECIMAL"}
    [] variant = 7 -> {"TIME", "TIME_MILLIS", "TIME_MICROS"}
    [] variant = 8 -> {"TIMESTAMP", "TIMESTAMP_MILLIS", "TIMESTAMP_MICROS"}
    [] variant = 9 -> {"INT", "UINT"}
    [] OTHER -> {LogicalVariantName(variant)}

ConvertedTypeName(code) ==
  CASE code = 0 -> "STRING"
    [] code = 1 -> "MAP"
    [] code = 2 -> "MAP_KEY_VALUE"
    [] code = 3 -> "LIST"
    [] code = 4 -> "ENUM"
    [] code = 5 -> "DECIMAL"
    [] code = 6 -> "DATE"
    [] code = 7 -> "TIME_MILLIS"
    [] code = 8 -> "TIME_MICROS"
    [] code = 9 -> "TIMESTAMP_MILLIS"
    [] code = 10 -> "TIMESTAMP_MICROS"
    [] code = 11 -> "UINT_8"
    [] code = 12 -> "UINT_16"
    [] code = 13 -> "UINT_32"
    [] code = 14 -> "UINT_64"
    [] code = 15 -> "INT_8"
    [] code = 16 -> "INT_16"
    [] code = 17 -> "INT_32"
    [] code = 18 -> "INT_64"
    [] code = 19 -> "JSON"
    [] code = 20 -> "BSON"
    [] code = 21 -> "INTERVAL"
    [] OTHER -> ""

\* C14: a SchemaElement with converted_type code 0..21 and no logicalType gets
\* the logical type the glossary table gives the code (0 STRING, 1 MAP,
\* 2 MAP_KEY_VALUE, 3 LIST, ... 21 INTERVAL).
C14_ConvertedTypeTable ==
  (call.fn = "ParseSchemaElement" /\ ~call.both /\ call.converted \in 0..21 /\ ret.done) =>
    /\ ~ret.raised
    /\ ret.v.logical_type = ConvertedTypeName(call.converted)

\* C15: a footer that lacks a required field of FileMetaData (num_rows,
\* row_groups) or of a RowGroup (columns, total_byte_size, num_rows) is not
\* decoded: the call fails with MissingRequiredField and returns no metadata
\* in which the missing field reads as 0 or as an empty list.
C15_MissingRequiredFieldRejected ==
  (Clean(sc) /\ sc.meta.unk.at = "none" /\ sc.meta.omit # {}) =>
    /\ ~Returned
    /\ (pc = "raised" => err = "MissingRequiredField")

\* C16: a bloom test on a column without a bloom filter (bloom_offset < 0)
\* reports BloomAbsent: it returns neither false nor true.
C16_AbsentFilterIsReported ==
  (call.fn = "test_bloom_filter" /\ call.bloom_offset < 0 /\ ret.done) =>
    /\ ret.raised
    /\ ret.v = "BloomAbsent"

\* The length of the filter the test would read
EffectiveLength(c) ==
  IF c.bloom_length > 0 THEN c.bloom_length
  ELSE IF Implausible(c.num_hash_functions, c.num_blocks) THEN DefaultBloomLength
  ELSE BloomHeaderSize + c.num_blocks * BlockSize

\* The filter of the call cannot be evaluated: the file does not open, it
\* holds too few bytes, the header's sizes are implausible, or the length is
\* below 12 + 32 * num_blocks
CannotEvaluate(c) ==
  \/ ~c.disk.exists
  \/ c.bloom_offset + EffectiveLength(c) > Len(c.disk.bytes)
  \/ Implausible(c.num_hash_functions, c.num_blocks)
  \/ EffectiveLength(c) < BloomHeaderSize + c.num_blocks * BlockSize

\* C17: when the bloom test cannot evaluate the filter, its outcome is an
\* error or true ("possibly present"), never false.
C17_UnevaluatedIsNeverFalse ==
  (/\ call.fn = "test_bloom_filter" /\ call.bloom_offset >= 0
   /\ CannotEvaluate(call) /\ ret.done) =>
    (ret.raised \/ ret.v = TRUE)

\* C18: a bloom test that evaluates the filter inspects one block only, and
\* returns true exactly when the bits it probed in that block are all set.
C18_OneBlockInspected ==
  (/\ call.fn = "test_bloom_filter" /\ call.bloom_offset >= 0
   /\ ~CannotEvaluate(call) /\ ret.done) =>
    /\ ~ret.raised
    /\ Len(ret.probes) >= 1
    /\ \A i, j \in DOMAIN ret.probes : ret.probes[i].block_idx = ret.probes[j].block_idx

\* The width in bytes of a fixed-width numeric physical type
WidthOf(physical_type) == IF physical_type \in {"INT32", "FLOAT"} THEN 4 ELSE 8

\* C19: decode_value never fails; for INT32 and FLOAT (4 bytes) and for INT64
\* and DOUBLE (8 bytes) a non-empty value of any other length comes back as
\* the same byte string, and a value of the exact length as the
\* little-endian number.
C19_WrongLengthGivesRawBytes ==
  (call.fn = "decode_value" /\ ret.done) =>
    /\ ~ret.raised
    /\ (call.physical_type \in {"INT32", "INT64", "FLOAT", "DOUBLE"} /\ Len(call.raw) > 0) =>
         IF Len(call.raw) # WidthOf(call.physical_type)
         THEN ret.v = PyBytes(call.raw)
         ELSE IF call.physical_type \in {"INT32", "INT64"}
              THEN ret.v = PyInt(SignedLE(call.raw))
              ELSE ret.v = PyFloat(call.raw)

\* The filter of column c.column_name in row group k (counted from 0) of the
\* call's file: <<>> when the row group or the column does not exist
TargetFilter(c, k) ==
  IF k < 0 \/ k >= Len(c.decoder.row_groups) THEN <<>>
  ELSE LET named == SelectSeq(c.decoder.row_groups[k + 1],
                              LAMBDA col : col.path = c.column_name)
       IN IF Len(named) = 0 THEN <<>> ELSE <<named[1].filter>>

\* A filter object exists there and the method the check uses returned False
SaidFalse(c, k) ==
  /\ Len(TargetFilter(c, k)) = 1
  /\ IsFilterObject(TargetFilter(c, k)[1])
  /\ \/ TargetFilter(c, k)[1].check = "false"
     \/ TargetFilter(c, k)[1].check = "absent" /\ TargetFilter(c, k)[1].contains = "false"

\* C20: check_bloom_filter returns False only when a filter object exists for
\* the column and row group and its check/contains returned False; for an
\* unknown column, a row group without entry, an unavailable filter, a filter
\* without check/contains and a check that raises it returns True.
\* check_bloom_filter_all_row_groups returns one such result per row group,
\* in row-group order.
C20_BloomCheckIsConservative ==
  /\ (call.fn = "check_bloom_filter" /\ CanLoad(call.decoder) /\ ret.done) =>
       /\ ~ret.raised
       /\ ret.v = ~SaidFalse(call, call.row_group_idx)
  /\ (call.fn = "check_bloom_filter_all_row_groups" /\ CanLoad(call.decoder) /\ ret.done) =>
       /\ ~ret.raised
       /\ Len(ret.v) = Len(call.decoder.row_groups)
       /\ \A k \in DOMAIN ret.v : ret.v[k] = ~SaidFalse(call, k - 1)

\* A filter whose check raises was asked: the answer was True
C20_Witness ==
  /\ call.fn = "check_bloom_filter" /\ ret.done /\ ~ret.raised
  /\ Len(TargetFilter(call, call.row_group_idx)) = 1
  /\ IsFilterObject(TargetFilter(call, call.row_group_idx)[1])
  /\ TargetFilter(call, call.row_group_idx)[1].check = "raises"
  /\ ret.v = TRUE

\* ------------------------------------------------------------------------
\* The Compact Protocol readers called one at a time: call names the reader
\* and its TInput (buf, with the cursor at 0), ret is what the call returned
\* or raised together with the cursor it left.
\* ------------------------------------------------------------------------

\* n bytes 0x80: continuation bit set, no payload
RECURSIVE Continuations(_)
Continuations(n) == IF n = 0 THEN <<>> ELSE <<128>> \o Continuations(n - 1)

\* The longest run of continuation bytes tried
MaxContinuations == 12

\* The terminating bytes tried after n continuation bytes: a payload of 1 at
\* bit 7n is kept where TLC's integers hold it or where the shift is wide
VarintLastBytes(n) == IF n <= 4 \/ n >= 10 THEN {0, 1} ELSE {0}

VarintCallsOfRun(n) ==
  {[fn |-> "ReadVarint", buf |-> Continuations(n) \o <<t>>, run |-> n,
    ended |-> TRUE, wide |-> w] : t \in VarintLastBytes(n), w \in WideShifts}
  \cup {[fn |-> "ReadVarint", buf |-> Continuations(n), run |-> n,
         ended |-> FALSE, wide |-> w] : w \in WideShifts}

\* run is the number of leading bytes with the continuation bit set; ended
\* tells whether a terminating byte follows them
VarintCalls ==
  UNION {VarintCallsOfRun(n) : n \in 0..MaxContinuations}
  \cup {[fn |-> "ReadVarint", buf |-> EncVarint(v) \o <<5>>,
         run |-> Len(EncVarint(v)) - 1, ended |-> TRUE, wide |-> w] :
          v \in {0, 1, 127, 128, 300, 16384}, w \in WideShifts}

\* uint64_t v = ReadVarint(in)
CallReadVarint ==
  /\ call.fn = "ReadVarint"
  /\ ~ret.done
  /\ LET r == ReadVarintWide(call.buf, 0, call.wide) IN
     ret' = IF r.ok THEN Returns([p |-> r.p, v |-> r.v]) ELSE Raises(r.err)
  /\ UNCHANGED <<call, dec>>
  /\ UNCHANGED readVars

\* The field ids written in the long form
LongFormIds == {-300, -2, -1, 1, 2, 16, 100, 300}

\* A field header: STOP, the short form (the id as a delta above last_id) or
\* the long form (the type byte, then the id as a zig-zag varint)
FieldHeaderCalls ==
  {[fn |-> "ReadFieldHeader", form |-> "stop", buf |-> <<0, 21>>,
    last_id |-> l, id |-> -1, type |-> 0] : l \in {0, 5}}
  \cup {[fn |-> "ReadFieldHeader", form |-> "short",
         buf |-> <<m * 16 + t, 21>>, last_id |-> l, id |-> l + m, type |-> t] :
          m \in 1..15, t \in {1, 5, 8, 12}, l \in {0, 5, 100}}
  \cup {[fn |-> "ReadFieldHeader", form |-> "long",
         buf |-> <<t>> \o EncInt(k) \o <<21>>, last_id |-> l, id |-> k, type |-> t] :
          k \in LongFormIds, t \in {1, 5, 8, 12}, l \in {0, 5}}
  \cup {[fn |-> "ReadFieldHeader", form |-> "cut", buf |-> b,
         last_id |-> 0, id |-> 0, type |-> 0] : b \in {<<>>, <<5>>, <<5, 128>>}}

\* int16_t last_id = call.last_id; FieldHeader fh = ReadFieldHeader(in, last_id)
\* (the STOP return leaves last_id as it was)
CallReadFieldHeader ==
  /\ call.fn = "ReadFieldHeader"
  /\ ~ret.done
  /\ LET r == ReadFieldHeader(call.buf, 0, call.last_id) IN
     ret' = IF r.ok
            THEN Returns([p |-> r.p, id |-> r.v.id, type |-> r.v.type,
                          last_id |-> IF call.buf[1] = 0 THEN call.last_id
                                      ELSE r.v.id])
            ELSE Raises(r.err)
  /\ UNCHANGED <<call, dec>>
  /\ UNCHANGED readVars

\* The frames of SkipField on the stack at the deepest point of
\* SkipField(in, type): one for the call itself, and below it those of the
\* element, key, value or field it is skipping at that point.
RECURSIVE SkipFrames(_, _, _)
RECURSIVE ElemFrames(_, _, _, _)
RECURSIVE PairFrames(_, _, _, _, _)
RECURSIVE StructFrames(_, _, _)

Deeper(a, b) == IF a >= b THEN a ELSE b

ElemFrames(buf, p, n, elem_type) ==
  IF n = 0 THEN 0
  ELSE LET r == SkipField(buf, p, elem_type)
           d == SkipFrames(buf, p, elem_type)
       IN IF ~r.ok THEN d
          ELSE Deeper(d, ElemFrames(buf, r.p, n - 1, elem_type))

PairFrames(buf, p, n, key_type, val_type) ==
  IF n = 0 THEN 0
  ELSE LET k == SkipField(buf, p, key_type)
           dk == SkipFrames(buf, p, key_type)
       IN IF ~k.ok THEN dk
          ELSE LET v == SkipField(buf, k.p, val_type)
                   dv == Deeper(dk, SkipFrames(buf, k.p, val_type))
               IN IF ~v.ok THEN dv
                  ELSE Deeper(dv, PairFrames(buf, v.p, n - 1, key_type, val_type))

StructFrames(buf, p, last) ==
  LET fh == ReadFieldHeader(buf, p, last) IN
  IF ~fh.ok \/ fh.v.type = 0 THEN 0
  ELSE LET r == SkipField(buf, fh.p, fh.v.type)
           d == SkipFrames(buf, fh.p, fh.v.type)
       IN IF ~r.ok THEN d
          ELSE Deeper(d, StructFrames(buf, r.p, fh.v.id))

MapFrames(buf, p) ==
  LET f == readByte(buf, p) IN
  IF ~f.ok \/ f.v \div 16 = 0 THEN 0
  ELSE LET sz == IF f.v \div 16 = 15 THEN ReadVarint(buf, f.p)
                 ELSE Ok(f.p, f.v \div 16)
       IN IF ~sz.ok THEN 0
          ELSE LET t == readByte(buf, sz.p) IN
               IF ~t.ok THEN 0
               ELSE PairFrames(buf, t.p, ToUint32(sz.v), t.v \div 16, t.v % 16)

SkipFrames(buf, p, type) ==
  CASE type \in {9, 10} ->
         LET lh == ReadListHeader(buf, p) IN
         IF ~lh.ok THEN 1
         ELSE 1 + ElemFrames(buf, lh.p, lh.v.size, lh.v.elem_type)
    [] type = 11 -> 1 + MapFrames(buf, p)
    [] type = 12 -> 1 + StructFrames(buf, p, 0)
    [] OTHER -> 1

\* The frames of SkipField the thread's stack holds; the call that needs one
\* more ends the process
StackFrames == 5

\* A value of each wire type, with its type
SkipValue(kind) ==
  CASE kind = "list16" -> Fld(0, 9, [et |-> 3, xs |-> [i \in 1..16 |-> i]])
    [] kind = "set_bool" -> Fld(0, 10, [et |-> 1, xs |-> <<2, 1, 1>>])
    [] kind = "map_bool" ->
         Fld(0, 11, [kt |-> 1, vt |-> 5, ks |-> <<1, 2>>, vs |-> <<7, 300>>])
    [] kind = "bool_false" -> Fld(0, 2, 0)
    [] kind = "binary_empty" -> Fld(0, 8, <<>>)
    [] OTHER -> UnknownField(0, kind)

SkipKinds ==
  UnknownKinds \cup {"list16", "set_bool", "map_bool", "bool_false", "binary_empty"}

\* What follows the value in the buffer
SkipTails == {<<>>, <<21, 2, 0>>, <<0, 0, 0, 0, 0, 0, 0, 0, 0>>}

\* A whole value of each kind: encoded is the length of its encoding
WholeValueCalls ==
  {[fn |-> "SkipField", kind |-> k, type |-> SkipValue(k).t,
    buf |-> EncValue(SkipValue(k).t, SkipValue(k).v) \o tail,
    encoded |-> Len(EncValue(SkipValue(k).t, SkipValue(k).v)), whole |-> TRUE] :
     k \in SkipKinds, tail \in SkipTails}

\* A value cut short: the buffer ends n bytes into the encoding
CutValueCallsOf(k) ==
  LET enc == EncValue(SkipValue(k).t, SkipValue(k).v) IN
  {[fn |-> "SkipField", kind |-> k, type |-> SkipValue(k).t,
    buf |-> SubSeq(enc, 1, n), encoded |-> Len(enc), whole |-> FALSE] :
     n \in 0..(Len(enc) - 1)}

CutValueCalls == UNION {CutValueCallsOf(k) : k \in SkipKinds}

\* A struct whose only field is a struct, d times over
RECURSIVE NestedStruct(_)
NestedStruct(d) ==
  IF d = 0 THEN <<0>> ELSE <<28>> \o NestedStruct(d - 1) \o <<0>>

NestedCalls ==
  {[fn |-> "SkipField", kind |-> "nested", type |-> 12,
    buf |-> NestedStruct(d), encoded |-> 2 * d + 1, whole |-> TRUE] :
     d \in 0..(StackFrames + 1)}

\* Arbitrary bytes: STOP, a small integer, field headers of a double, a
\* list and a struct, and a continuation byte
NoiseBytes == {0, 1, 23, 25, 28, 128}

MaxNoiseLen == 3

NoiseCalls ==
  {[fn |-> "SkipField", kind |-> "noise", type |-> t, buf |-> b,
    encoded |-> 0, whole |-> FALSE] :
     t \in {7, 8, 9, 11, 12}, b \in UNION {[1..n -> NoiseBytes] : n \in 0..MaxNoiseLen}}

SkipFieldCalls == WholeValueCalls \cup CutValueCalls \cup NestedCalls \cup NoiseCalls

\* SkipField(in, type): the call returns or throws unless its recursion
\* outgrows the stack
CallSkipField ==
  /\ call.fn = "SkipField"
  /\ ~ret.done
  /\ LET r == SkipField(call.buf, 0, call.type) IN
     ret' = IF SkipFrames(call.buf, 0, call.type) > StackFrames
            THEN Aborts("stack overflow")
            ELSE IF r.ok THEN Returns([p |-> r.p]) ELSE Raises(r.err)
  /\ UNCHANGED <<call, dec>>
  /\ UNCHANGED readVars

\* A LogicalType union value followed by the rest of its SchemaElement
LogicalTypeCalls ==
  {[fn |-> "ParseLogicalType", logical |-> l,
    buf |-> EncStruct(LogicalDescTree(l)) \o tail,
    encoded |-> Len(EncStruct(LogicalDescTree(l)))] :
     l \in LogicalDescs, tail \in {<<0>>, <<21, 2, 0>>}}

\* std::string logical = ParseLogicalType(in)
CallParseLogicalType ==
  /\ call.fn = "ParseLogicalType"
  /\ ~ret.done
  /\ LET r == ParseLogicalType(call.buf, 0) IN
     ret' = IF r.ok THEN Returns([p |-> r.p, v |-> r.v]) ELSE Raises(r.err)
  /\ UNCHANGED <<call, dec>>
  /\ UNCHANGED readVars

\* A binary value: its length, then its bytes, whole or cut short
StringCalls ==
  {[fn |-> "ReadString", buf |-> EncVarint(n) \o Fill(97, have) \o tail] :
     n \in {0, 1, 3, 200}, have \in 0..3, tail \in {<<>>, <<0>>}}
  \cup {[fn |-> "ReadString", buf |-> b] : b \in {<<>>, <<128>>}}

\* std::string s = ReadString(in)
CallReadString ==
  /\ call.fn = "ReadString"
  /\ ~ret.done
  /\ LET r == ReadString(call.buf, 0) IN
     ret' = IF r.ok THEN Returns([p |-> r.p, v |-> r.v]) ELSE Raises(r.err)
  /\ UNCHANGED <<call, dec>>
  /\ UNCHANGED readVars

\* A list header, short (size below 15) or long (size as a varint)
ListHeaderCalls ==
  {[fn |-> "ReadListHeader", buf |-> EncListHeader(et, n) \o tail] :
     et \in {1, 5, 12}, n \in {0, 1, 14, 15, 300}, tail \in {<<>>, <<0>>}}
  \cup {[fn |-> "ReadListHeader", buf |-> b] : b \in {<<>>, <<245>>, <<245, 128>>}}

\* ListHeader lh = ReadListHeader(in)
CallReadListHeader ==
  /\ call.fn = "ReadListHeader"
  /\ ~ret.done
  /\ LET r == ReadListHeader(call.buf, 0) IN
     ret' = IF r.ok THEN Returns([p |-> r.p, v |-> r.v]) ELSE Raises(r.err)
  /\ UNCHANGED <<call, dec>>
  /\ UNCHANGED readVars

ReaderCalls ==
  VarintCalls \cup FieldHeaderCalls \cup SkipFieldCalls \cup LogicalTypeCalls
  \cup StringCalls \cup ListHeaderCalls

ReaderInit == ReadIdle /\ call \in ReaderCalls /\ ret = Pending /\ dec = NoDecoder

ReaderNext ==
  \/ CallReadVarint
  \/ CallReadFieldHeader
  \/ CallSkipField
  \/ CallParseLogicalType
  \/ CallReadString
  \/ CallReadListHeader

ReaderSpec == ReaderInit /\ [][ReaderNext]_vars

\* ------------------------------------------------------------------------
\* Properties of the readers
\* ------------------------------------------------------------------------

\* C21: every call of a reader ends by returning a value or by raising an
\* error: no call ends the process in any other way.
C21_ReturnsOrRaises ==
  (call.fn \in {"ReadVarint", "ReadString", "ReadFieldHeader", "ReadListHeader",
                "SkipField"} /\ ret.done)
    => ~ret.aborted

\* C22: ReadVarint raises, and returns no value, on an encoding in which
\* more than 10 consecutive bytes have the continuation bit set, and raises
\* when the input ends before a terminating byte.
C22_OverlongVarintRejected ==
  (call.fn = "ReadVarint" /\ ret.done /\ (call.run > 10 \/ ~call.ended))
    => ret.raised

\* ------------------------------------------------------------------------
\* parquet_decoder.pyx: the life of a ParquetDecoder.  dec holds the object's
\* fields; dec.stream is what the BytesIO (or the caller's stream) holds:
\* parquet data with its row groups, bytes that are not parquet data, or a
\* stream that has been closed (every operation on it raises).
\* ------------------------------------------------------------------------

\* The Python None in _parquet_file and _metadata
PyNone == [set |-> FALSE]

\* pq.ParquetFile(stream) over parquet data
PqParquetFile(stream) == [set |-> TRUE, row_groups |-> stream.row_groups]

\* self._parquet_file.metadata
PqMetadata(parquet_file) ==
  [set |-> TRUE, num_row_groups |-> Len(parquet_file.row_groups)]

ParquetStream(row_groups) == [kind |-> "parquet", row_groups |-> row_groups]

GarbageStream == [kind |-> "garbage", row_groups |-> <<>>]

ClosedStream == [kind |-> "closed", row_groups |-> <<>>]

\* __cinit__: the stream is kept, nothing is loaded
NewDecoder(stream) ==
  [made |-> TRUE, stream |-> stream, parquet_file |-> PyNone, metadata |-> PyNone,
   file_loaded |-> FALSE]

\* What a method leaves: the object's fields and the method's outcome
Left(d, r) == [dec |-> d, ret |-> r]

\* (load_file setting _file_loaded before it opens the stream)
load_file_flag_first(d) ==
  IF d.stream.kind # "parquet"
  THEN Left([d EXCEPT !.file_loaded = TRUE], Raises("ValueError"))
  ELSE Left([d EXCEPT !.parquet_file = PqParquetFile(d.stream),
                      !.metadata = PqMetadata(PqParquetFile(d.stream)),
                      !.file_loaded = TRUE], Returns("None"))

\* load_file: seek(0) raises on a closed stream and pq.ParquetFile raises on
\* bytes that are not parquet data, both before any field is assigned; the
\* except clause turns either into ValueError
load_file(d) ==
  IF d.stream.kind # "parquet"
  THEN Left(d, Raises("ValueError"))
  ELSE Left([d EXCEPT !.parquet_file = PqParquetFile(d.stream),
                      !.metadata = PqMetadata(PqParquetFile(d.stream)),
                      !.file_loaded = TRUE], Returns("None"))

\* (close leaving _file_loaded as it was)
close_keeps_flag(d) ==
  Left([d EXCEPT !.parquet_file = PyNone, !.metadata = PyNone], Returns("None"))

\* close
close(d) ==
  Left([d EXCEPT !.parquet_file = PyNone, !.metadata = PyNone,
                 !.file_loaded = FALSE], Returns("None"))

\* if not self._file_loaded: self.load_file()
EnsureLoaded(d) == IF ~d.file_loaded THEN load_file(d) ELSE Left(d, Returns("None"))

\* An accessor: the load where needed, then body(d) on the object's fields;
\* an attribute of None raises AttributeError
Accessor(d, needs_file, needs_metadata, body(_)) ==
  LET l == EnsureLoaded(d) IN
  IF l.ret.raised THEN l
  ELSE IF (needs_file /\ ~l.dec.parquet_file.set)
          \/ (needs_metadata /\ ~l.dec.metadata.set)
       THEN Left(l.dec, Raises("AttributeError"))
  ELSE Left(l.dec, body(l.dec))

\* The names of the columns of the file: those of its first row group
ColumnNames(parquet_file) ==
  IF Len(parquet_file.row_groups) = 0 THEN <<>>
  ELSE [i \in 1..Len(parquet_file.row_groups[1]) |-> parquet_file.row_groups[1][i].path]

get_metadata(d) ==
  Accessor(d, TRUE, TRUE, LAMBDA e:
    Returns([num_row_groups |-> e.metadata.num_row_groups,
             schema |-> ColumnNames(e.parquet_file)]))

get_column_names(d) ==
  Accessor(d, TRUE, FALSE, LAMBDA e: Returns(ColumnNames(e.parquet_file)))

\* self._parquet_file.read(): the table of every row group
read_columns(d) ==
  Accessor(d, TRUE, FALSE, LAMBDA e: Returns(e.parquet_file.row_groups))

\* self._parquet_file.read_row_groups([k]): PyArrow raises on an index the
\* file does not have
read_row_groups(d, k) ==
  Accessor(d, TRUE, FALSE, LAMBDA e:
    IF k \in 0..(Len(e.parquet_file.row_groups) - 1)
    THEN Returns(<<e.parquet_file.row_groups[k + 1]>>)
    ELSE Raises("IndexError"))

\* The row groups that have the column carry its statistics
get_statistics(d, column_name) ==
  Accessor(d, FALSE, TRUE, LAMBDA e:
    Returns({k \in 0..(e.metadata.num_row_groups - 1) :
               FirstColumnNamed(e.parquet_file.row_groups[k + 1], column_name, 1) > 0}))

load_bloom_filters(d, column_name) ==
  Accessor(d, TRUE, TRUE, LAMBDA e:
    Returns(DOMAIN get_bloom_filters(e.parquet_file, column_name)))

LifecycleRowGroups ==
  {<<[path |-> "y", filter |-> NoFilter]>>,
   <<[path |-> "y", filter |-> NoFilter],
     [path |-> "x", filter |-> FilterObject("true", "absent")]>>}

LifecycleStreams ==
  {ParquetStream(rgs) : rgs \in SeqsUpTo(LifecycleRowGroups, MaxDecoderRowGroups)}
  \cup {GarbageStream, ClosedStream}

AccessorNames ==
  {"get_metadata", "get_column_names", "read_columns", "read_row_groups",
   "get_statistics", "get_bloom_filters"}

\* The call made: its name and argument, whether the object was loaded when
\* it was made, and the call before it with its outcome
Called(fn, arg) ==
  [fn |-> fn, arg |-> arg, was_loaded |-> dec.file_loaded,
   after |-> call.fn, after_raised |-> ret.done /\ ret.raised]

\* One method call on the object: r is what the method leaves
Method(fn, arg, r) ==
  /\ dec.made
  /\ call' = Called(fn, arg)
  /\ dec' = r.dec
  /\ ret' = r.ret
  /\ UNCHANGED readVars

DoLoadFile == Method("load_file", 0, load_file(dec))

DoClose == Method("close", 0, close(dec))

DoGetMetadata == Method("get_metadata", 0, get_metadata(dec))

DoGetColumnNames == Method("get_column_names", 0, get_column_names(dec))

DoReadColumns == Method("read_columns", 0, read_columns(dec))

DoReadRowGroups ==
  \E k \in 0..MaxDecoderRowGroups : Method("read_row_groups", k, read_row_groups(dec, k))

DoGetStatistics ==
  \E c \in {"x", "z"} : Method("get_statistics", c, get_statistics(dec, c))

DoGetBloomFilters ==
  \E c \in {"x", "z"} : Method("get_bloom_filters", c, load_bloom_filters(dec, c))

DecoderInit ==
  /\ ReadIdle
  /\ call = NoCall
  /\ ret = Pending
  /\ dec \in {NewDecoder(s) : s \in LifecycleStreams}

DecoderNext ==
  \/ DoLoadFile
  \/ DoClose
  \/ DoGetMetadata
  \/ DoGetColumnNames
  \/ DoReadColumns
  \/ DoReadRowGroups
  \/ DoGetStatistics
  \/ DoGetBloomFilters

DecoderSpec == DecoderInit /\ [][DecoderNext]_vars

NotLoaded(d) == ~d.file_loaded /\ ~d.parquet_file.set /\ ~d.metadata.set

\* C23: load_file on a stream without valid parquet data, called on a fresh
\* or closed decoder, raises ValueError and leaves _file_loaded false with
\* _parquet_file and _metadata unset; an accessor called after it tries the
\* load again (and raises ValueError again) and uses no unset field.
C23_FailedLoadLeavesUnloaded ==
  /\ (call.fn = "load_file" /\ ~call.was_loaded /\ dec.stream.kind # "parquet")
       => (ret = Raises("ValueError") /\ NotLoaded(dec))
  /\ (call.fn \in AccessorNames /\ call.after = "load_file" /\ call.after_raised
      /\ ~call.was_loaded)
       => (ret = Raises("ValueError") /\ NotLoaded(dec))

C23_Witness ==
  /\ call.fn \in AccessorNames
  /\ call.after = "load_file"
  /\ call.after_raised
  /\ ~call.was_loaded
  /\ ret = Raises("ValueError")
  /\ dec.stream.kind = "garbage"

\* C28: whatever methods have been called, _file_loaded is true only when
\* _parquet_file and _metadata are both set; close always leaves all three
\* unset (so a second close changes nothing) and keeps the stream, so that
\* the next accessor on a stream of parquet data loads it again.
C28_DecoderLifecycle ==
  /\ (dec.made /\ dec.file_loaded) => (dec.parquet_file.set /\ dec.metadata.set)
  /\ call.fn = "close" => (ret = Returns("None") /\ dec = NewDecoder(dec.stream))
  /\ (call.fn \in AccessorNames /\ call.after = "close" /\ dec.stream.kind = "parquet")
       => /\ dec.file_loaded
          /\ dec.parquet_file = PqParquetFile(dec.stream)
          /\ dec.metadata = PqMetadata(dec.parquet_file)
          /\ ret.raised => ret.v = "IndexError"

C28_Witness ==
  /\ call.fn \in AccessorNames
  /\ call.after = "close"
  /\ ~call.was_loaded
  /\ dec.file_loaded
  /\ ~ret.raised
  /\ Len(dec.parquet_file.row_groups) = 2

\* C24: ReadFieldHeader returns STOP for the byte 0; otherwise the type is
\* the low nibble and the id is last_id plus the high nibble when that is
\* not 0, and the zig-zag-decoded varint that follows when it is 0; last_id
\* becomes the returned id.
C24_FieldHeaderDecoded ==
  (call.fn = "ReadFieldHeader" /\ ret.done /\ call.form # "cut")
    => /\ ~ret.raised
       /\ ret.v.id = call.id
       /\ ret.v.type = call.type
       /\ call.form # "stop" => ret.v.last_id = ret.v.id

\* C25: SkipField moves the cursor by exactly the encoded length of the
\* value it skips, for a whole value of every wire type 1..12 (a BOOL
\* element of a list, set or map is one byte, a MAP is a varint size and,
\* when that is not 0, one byte of types), and raises on a DOUBLE of which
\* fewer than 8 bytes remain.
C25_SkipsExactlyTheValue ==
  (call.fn = "SkipField" /\ ret.done /\ call.kind \notin {"noise", "nested"})
    => /\ call.whole => (~ret.raised /\ ret.v.p = call.encoded)
       /\ (call.kind = "double" /\ ~call.whole) => ret.raised

\* C27: no reader returns with the cursor beyond the end of the buffer.
C27_CursorWithinBuffer ==
  (call.fn \in {"ReadVarint", "ReadString", "ReadListHeader", "ReadFieldHeader",
                "SkipField", "ParseLogicalType"}
   /\ ret.done /\ ~ret.raised /\ ~ret.aborted)
    => ret.v.p <= Len(call.buf)

\* C26: ParseLogicalType returns with the cursor just after the STOP byte
\* that ends the LogicalType struct, for every variant of the union.
C26_LogicalTypeConsumed ==
  (call.fn = "ParseLogicalType" /\ ret.done)
    => (~ret.raised /\ ret.v.p = call.encoded)

\* C29: TestBloomFilter reads no byte outside the bytes it loaded: every
\* probe it makes has block_idx < num_blocks and byte_idx < 32, and reads
\* the byte at 12 + block_idx * 32 + byte_idx, which is below the length
\* loaded.
C29_ProbesWithinLoadedBytes ==
  (call.fn = "test_bloom_filter" /\ ret.done)
    => \A i \in DOMAIN ret.probes :
         /\ ~Implausible(call.num_hash_functions, call.num_blocks)
         /\ ret.probes[i].block_idx < call.num_blocks
         /\ ret.probes[i].byte_idx < BlockSize
         /\ ret.probes[i].index
              = BloomHeaderSize + ret.probes[i].block_idx * BlockSize
                + ret.probes[i].byte_idx
         /\ Len(ret.loaded) = 1
         /\ ret.probes[i].index < ret.loaded[1]

C29_Witness ==
  /\ call.fn = "test_bloom_filter"
  /\ ret.done
  /\ call.num_blocks = MaxBloomBlocks
  /\ Len(ret.probes) >= 2
  /\ \E i \in DOMAIN ret.probes : ret.probes[i].block_idx = call.num_blocks - 1
  /\ \E i \in DOMAIN ret.probes : ret.probes[i].byte_idx > 0

\* C30: with no bloom_length given (<= 0) and a header at bloom_offset whose
\* sizes are implausible, the test answers false for every key, although the
\* default length can be read and every bit in it is set; with a plausible
\* header the length loaded is 12 + 32 * num_blocks.
C30_DefaultLengthNeverPositive ==
  (call.fn = "test_bloom_filter" /\ ret.done /\ call.disk.exists
   /\ call.bloom_length <= 0 /\ call.bloom_offset = 4)
    => IF Implausible(call.num_hash_functions, call.num_blocks)
       THEN ret.v = FALSE
       ELSE ret.loaded = <<BloomHeaderSize + BlockSize * call.num_blocks>>

C30_Witness ==
  /\ call.fn = "test_bloom_filter"
  /\ ret.done
  /\ call.bloom_length <= 0
  /\ Implausible(call.num_hash_functions, call.num_blocks)
  /\ call.num_hash_functions > 0
  /\ call.num_blocks > 0
  /\ ret.loaded = <<DefaultBloomLength>>
  /\ ret.v = FALSE

====
